---- MODULE Spec2Model ----
(***************************************************************************)
(* A model of wide_deep_bandits_BLR_TS.py: the ContextualDataset buffer    *)
(* and the Wide_Deep_Bandits agent (user registry, warm-up round robin,    *)
(* record/update orchestration, Bayesian linear regression posteriors).    *)
(*                                                                         *)
(* Numbers.  Context vectors have one component.  Rewards and raw contexts *)
(* are integers.  Reals that the code derives from them are kept exactly:  *)
(*   - a rational is <<n, d>> with d > 0 in lowest terms; <<0, 0>> is NaN; *)
(*   - a (scaled) context value is [sgn, sq]: the real sgn * sqrt(sq) with *)
(*     sq a rational, which is closed under mean/std scaling of integers.  *)
(* The networks are external: a latent component is kept as the            *)
(* application of the network (at a given parameter version) to its        *)
(* argument, and Num gives it the number the linear algebra consumes.      *)
(***************************************************************************)
EXTENDS Integers, Sequences, FiniteSets, TLC

VARIABLES
  namespace,          \* names bound in the module beside those the file imports
  blob,               \* the file save() writes: [kind, agent]
  buf,                \* a stand-alone ContextualDataset (with or without memory_size)
  bufRet,             \* the last call on buf and the number of calls: [op, raised, calls]
  cfg,                \* constructor arguments of the agent
  t,                  \* Wide_Deep_Bandits.t
  data_h,             \* Wide_Deep_Bandits.data_h   (raw buffer)
  latent_h,           \* Wide_Deep_Bandits.latent_h (latent buffer)
  user_dict,          \* Wide_Deep_Bandits.user_dict
  current_user_size,  \* Wide_Deep_Bandits.current_user_size
  post,               \* mu, cov, precision, a, b (one entry per action)
  nn,                 \* trainable state of the approximator and its optimizer
  ret,                \* outcome of the last call on the agent: [op, arg, val, raised]
  nDecide,            \* number of action() calls the caller has made
  caller,             \* the context tensor a caller holds: [x, observed]
  threads             \* the update() calls in progress, one per calling thread

vars == <<namespace, blob, buf, bufRet, cfg, t, data_h, latent_h, user_dict, current_user_size,
          post, nn, ret, nDecide, caller, threads>>

agentVars == <<cfg, t, data_h, latent_h, user_dict, current_user_size, post, nn,
               ret, nDecide>>

\* the stand-alone buffer, the module's names and the saved file
storeVars == <<namespace, blob, buf, bufRet, threads>>

\* what the calls on the agent leave alone when they are given a tensor of
\* their own
bufVars == <<namespace, blob, buf, bufRet, caller, threads>>

(***************************************************************************)
(* Bounds and input domains                                                *)
(***************************************************************************)
MaxCalls == 3           \* calls on the stand-alone buffer
MaxT == 2               \* update() calls on the agent
MaxDecides == 2         \* action() calls on the agent
MaxLatentRows == 2      \* rows of a latent buffer filled by hand

Actions == 0 .. 1                     \* num_actions = 2
MemorySizes == {-1, 1, 2}             \* -1: no memory bound
BufUserIds == {7, 8}
BufContexts == {1, 2}
BufRewards == {0, 1, 16777217}        \* 2^24 + 1 has no single-precision value
BatchLens == 0 .. 2                   \* rows of one bulk ingestion
Defects == {"none", "user_ids", "contexts", "actions", "rewards"}

num_actions == Cardinality(Actions)

(***************************************************************************)
(* Integers and single precision                                           *)
(***************************************************************************)
Abs(x) == IF x < 0 THEN -x ELSE x

Sgn(x) == IF x < 0 THEN -1 ELSE IF x = 0 THEN 0 ELSE 1

RECURSIVE GCD(_, _)
GCD(x, y) == IF y = 0 THEN x ELSE GCD(y, x % y)

\* float(reward) stored in a float32 tensor: integers up to 2^24 are exact,
\* above (up to 2^25) the value is rounded to the nearest even integer,
\* ties to the even significand.
Float32(x) ==
  LET m == Abs(x)
      lo == 2 * (m \div 2)
      r == IF m <= 16777216 THEN m
           ELSE IF m = lo THEN m
           ELSE IF (lo \div 2) % 2 = 0 THEN lo ELSE lo + 2
  IN Sgn(x) * r

(***************************************************************************)
(* ContextualDataset                                                       *)
(***************************************************************************)
\* ContextualDataset.__init__
NewDataset(memory_size) ==
  [ contexts |-> <<>>, contexts_none |-> TRUE,
    scaled_contexts |-> <<>>, scaled_none |-> TRUE,
    rewards |-> <<>>, rewards_none |-> TRUE,
    user_ids |-> <<>>, actions |-> <<>>,
    memory_size |-> memory_size ]

\* r = torch.zeros((1, num_actions)); r[0, action] = float(reward)
RewardRowAllColumns(action, reward) ==
  [ j \in 1 .. num_actions |-> Float32(reward) ]

RewardRow(action, reward) ==
  [ j \in 1 .. num_actions |-> IF j = action + 1 THEN Float32(reward) ELSE 0 ]

Tail1(s) == IF Len(s) = 0 THEN s ELSE Tail(s)

Front1(s) == IF Len(s) = 0 THEN s ELSE SubSeq(s, 1, Len(s) - 1)

\* The eviction of add(): all four sequences lose row 0.
EvictKeepsUserIds(ds) ==
  [ ds EXCEPT !.contexts = Tail1(ds.contexts),
              !.rewards = Tail1(ds.rewards),
              !.actions = Tail1(ds.actions) ]

EvictNewest(ds) ==
  [ ds EXCEPT !.contexts = Front1(ds.contexts),
              !.rewards = Front1(ds.rewards),
              !.actions = Front1(ds.actions),
              !.user_ids = Front1(ds.user_ids) ]

Evict(ds) ==
  [ ds EXCEPT !.contexts = Tail1(ds.contexts),
              !.rewards = Tail1(ds.rewards),
              !.actions = Tail1(ds.actions),
              !.user_ids = Tail1(ds.user_ids) ]

\* ContextualDataset.add: the dataset it leaves and the exception, if any.
\* torch.cat((self.rewards, r)) raises when the stored matrix has another
\* width (the context is already appended); with a memory bound the final
\* asserts raise when the lengths differ (everything is already stored).
AddOutcome(ds, user_id, context, action, reward) ==
  LET withCtx == [ ds EXCEPT !.contexts = Append(ds.contexts, context),
                             !.contexts_none = FALSE ]
      grown == [ withCtx EXCEPT
                   !.rewards = Append(ds.rewards, RewardRow(action, reward)),
                   !.rewards_none = FALSE,
                   !.actions = Append(ds.actions, action),
                   !.user_ids = Append(ds.user_ids, user_id) ]
      kept == IF ds.memory_size # -1 /\ Len(grown.contexts) > ds.memory_size
              THEN Evict(grown) ELSE grown
  IN IF ~ds.rewards_none /\ Len(ds.rewards[1]) # num_actions
     THEN [ ds |-> withCtx, raised |-> "RuntimeError" ]
     ELSE IF /\ ds.memory_size # -1
             /\ \/ Len(kept.actions) # Len(kept.rewards)
                \/ Len(kept.actions) # Len(kept.contexts)
                \/ Len(kept.actions) # Len(kept.user_ids)
     THEN [ ds |-> kept, raised |-> "AssertionError" ]
     ELSE [ ds |-> kept, raised |-> "none" ]

Add(ds, user_id, context, action, reward) ==
  AddOutcome(ds, user_id, context, action, reward).ds

\* ContextualDataset.__len__
DsLen(ds) == Len(ds.actions)

RECURSIVE SeqMax(_)
SeqMax(s) ==
  IF Len(s) = 1 THEN s[1]
  ELSE LET m == SeqMax(Tail(s)) IN IF s[1] > m THEN s[1] ELSE m

\* coo_matrix((rewards, (arange(n), actions))).toarray(): the width is inferred
\* from the largest action of the batch.
RewardsArray(actions, rewards) ==
  [ i \in 1 .. Len(rewards) |->
      [ j \in 1 .. SeqMax(actions) + 1 |->
          IF j = actions[i] + 1 THEN Float32(rewards[i]) ELSE 0 ] ]

\* The capacity test of _ingest_data; len(self.rewards) of an empty buffer
\* (rewards is None) is a TypeError.
IngestCapacityOffByOne(ds, data_length) ==
  IF ds.memory_size = -1 THEN "none"
  ELSE IF ds.rewards_none THEN "TypeError"
  ELSE IF data_length + Len(ds.rewards) > ds.memory_size + 1 THEN "Exception"
  ELSE "none"

IngestCapacity(ds, data_length) ==
  IF ds.memory_size = -1 THEN "none"
  ELSE IF ds.rewards_none THEN "TypeError"
  ELSE IF data_length + Len(ds.rewards) > ds.memory_size THEN "Exception"
  ELSE "none"

\* ContextualDataset._ingest_data: the dataset it leaves and the exception, if any
Ingest(ds, user_ids, contexts, actions, rewards) ==
  LET data_length == Len(rewards)
      cap == IngestCapacity(ds, data_length)
      withCtx == [ ds EXCEPT !.contexts = ds.contexts \o contexts,
                             !.contexts_none = FALSE ]
  IN IF cap # "none" THEN [ ds |-> ds, raised |-> cap ]
     ELSE IF Len(contexts) # data_length \/ Len(actions) # data_length
     THEN [ ds |-> ds, raised |-> "AssertionError" ]
     ELSE IF data_length = 0
     THEN [ ds |-> withCtx, raised |-> "ValueError" ]
     ELSE LET rewards_array == RewardsArray(actions, rewards)
          IN IF ~ds.rewards_none /\ Len(ds.rewards[1]) # Len(rewards_array[1])
             THEN [ ds |-> withCtx, raised |-> "RuntimeError" ]
             ELSE [ ds |-> [ withCtx EXCEPT
                               !.rewards = ds.rewards \o rewards_array,
                               !.rewards_none = FALSE,
                               !.actions = ds.actions \o actions,
                               !.user_ids = ds.user_ids \o user_ids ],
                    raised |-> "none" ]

(***************************************************************************)
(* Exact arithmetic: rationals <<n, d>>, NaN = <<0, 0>>                     *)
(***************************************************************************)
NaNQ == <<0, 0>>

IsNaNQ(q) == q[2] = 0

Norm(n, d) ==
  IF d = 0 THEN NaNQ
  ELSE LET g == GCD(Abs(n), Abs(d))
       IN <<Sgn(d) * (n \div g), Abs(d) \div g>>

Q(n) == <<n, 1>>

QAdd(x, y) == Norm(x[1] * y[2] + y[1] * x[2], x[2] * y[2])

QSub(x, y) == Norm(x[1] * y[2] - y[1] * x[2], x[2] * y[2])

QMul(x, y) == Norm(x[1] * y[1], x[2] * y[2])

\* only used with y # 0 or y NaN (a zero determinant raises before)
QDiv(x, y) == IF IsNaNQ(x) THEN NaNQ ELSE Norm(x[1] * y[2], x[2] * y[1])

QLess(x, y) == x[1] * y[2] < y[1] * x[2]

RECURSIVE QSum(_)
QSum(s) == IF Len(s) = 0 THEN Q(0) ELSE QAdd(s[1], QSum(Tail(s)))

RECURSIVE IntSum(_)
IntSum(s) == IF Len(s) = 0 THEN 0 ELSE s[1] + IntSum(Tail(s))

Dot(u, v) == QSum([ i \in 1 .. Len(u) |-> QMul(u[i], v[i]) ])

MatVec(M, v) == [ i \in 1 .. Len(M) |-> Dot(M[i], v) ]

MatMul(A, B) ==
  [ i \in 1 .. Len(A) |->
      [ j \in 1 .. Len(B[1]) |->
          QSum([ k \in 1 .. Len(B) |-> QMul(A[i][k], B[k][j]) ]) ] ]

\* np.eye(d) scaled by q
ScaledEye(q, d) ==
  [ i \in 1 .. d |-> [ j \in 1 .. d |-> IF i = j THEN q ELSE Q(0) ] ]

\* z.T @ z for the rows z (each a vector of dimension d)
Gram(z, d) ==
  [ i \in 1 .. d |->
      [ j \in 1 .. d |->
          QSum([ k \in 1 .. Len(z) |-> QMul(z[k][i], z[k][j]) ]) ] ]

\* z.T @ y
TransVec(z, y, d) ==
  [ i \in 1 .. d |-> QSum([ k \in 1 .. Len(z) |-> QMul(z[k][i], y[k]) ]) ]

MatAdd(A, B) ==
  [ i \in 1 .. Len(A) |-> [ j \in 1 .. Len(A) |-> QAdd(A[i][j], B[i][j]) ] ]

Det(M) ==
  IF Len(M) = 1 THEN M[1][1]
  ELSE QSub(QMul(M[1][1], M[2][2]), QMul(M[1][2], M[2][1]))

\* np.linalg.inv raises LinAlgError on an exactly singular matrix
Singular(M) == Det(M) = Q(0)

\* np.linalg.inv for dimension 1 and 2 (a NaN entry gives NaN entries)
Inv(M) ==
  LET det == Det(M)
  IN IF Len(M) = 1 THEN << << QDiv(Q(1), det) >> >>
     ELSE << << QDiv(M[2][2], det), QDiv(QSub(Q(0), M[1][2]), det) >>,
             << QDiv(QSub(Q(0), M[2][1]), det), QDiv(M[1][1], det) >> >>

(***************************************************************************)
(* Context values: the real sgn * sqrt(sq), sq rational; NaN has sq = NaN  *)
(***************************************************************************)
NaNReal == [ sgn |-> 0, sq |-> NaNQ ]

IsNaNReal(c) == IsNaNQ(c.sq)

\* the value of an unscaled (integer) context
RealOfInt(x) == [ sgn |-> Sgn(x), sq |-> Q(x * x) ]

\* One entry of scale_contexts: (x - mean) / std over the column xs of the
\* buffer, std the unbiased estimate (NaN for one row), a zero std taken as 1.
ScaleValue(x, xs) ==
  LET n == Len(xs)
      s1 == IntSum(xs)
      s2 == IntSum([ i \in 1 .. n |-> xs[i] * xs[i] ])
      dev == n * x - s1                 \* n * (x - mean)
      nvar == n * s2 - s1 * s1          \* n * (n - 1) * std^2
  IN IF n = 1 THEN NaNReal
     ELSE IF nvar = 0 THEN [ sgn |-> Sgn(dev), sq |-> Norm(dev * dev, n * n) ]
     ELSE [ sgn |-> Sgn(dev), sq |-> Norm(dev * dev * (n - 1), n * nvar) ]

\* ContextualDataset.scale_contexts: the scaled_contexts cache it writes
ScaleContextsNewRows(ds) ==
  [ ds EXCEPT !.scaled_contexts =
                 [ i \in 1 .. Len(ds.contexts) |->
                     IF i <= Len(ds.scaled_contexts) THEN ds.scaled_contexts[i]
                     ELSE ScaleValue(ds.contexts[i], ds.contexts) ],
              !.scaled_none = FALSE ]

ScaleContexts(ds) ==
  [ ds EXCEPT !.scaled_contexts =
                 [ i \in 1 .. Len(ds.contexts) |->
                     ScaleValue(ds.contexts[i], ds.contexts) ],
              !.scaled_none = FALSE ]

\* ContextualDataset.get_contexts
GetContexts(ds, scaled) ==
  IF scaled THEN ds.scaled_contexts
  ELSE [ i \in 1 .. Len(ds.contexts) |-> RealOfInt(ds.contexts[i]) ]

\* ContextualDataset._replace_data(contexts=...)
ReplaceData(ds, contexts) == [ ds EXCEPT !.contexts = contexts ]

\* ContextualDataset.get_data: the rows where action was played
RowsOf(ds, action) == { i \in 1 .. Len(ds.actions) : ds.actions[i] = action }

RECURSIVE SortedSeq(_)
SortedSeq(S) ==
  IF S = {} THEN <<>>
  ELSE LET m == CHOOSE x \in S : \A y \in S : x <= y
       IN <<m>> \o SortedSeq(S \ {m})

(***************************************************************************)
(* Wide_Deep_Bandits: configuration and construction                       *)
(***************************************************************************)
UserIds == {0, 7}                     \* user ids passed to update()
RegistryIds == {0, 7, 8}              \* user ids of the registry calls
LookupIds == RegistryIds \cup {9}     \* 9 is never registered
DecideIds == {7, 9}                   \* user ids passed to action()
Contexts == {1, 2}
Rewards == {0, 1}
Methods == {"BLR_TS", "BLR", "forward", "other"}

a0 == 6
b0 == 6
lambda_prior == <<1, 4>>              \* 0.25

Configs ==
  [ initial_pulls : {1, 2},
    update_freq_nn : {1, 2},
    update_freq_lr : {1, 2},
    num_epochs : {2},
    do_scaling : BOOLEAN,
    model_type : {"wide_deep"},
    wd_combine_method : {"concat_representation_llr"},
    reset_lr : {TRUE},
    lr_decay_rate_wide : {1},
    lr_decay_rate_deep : {1} ]

\* latent_dim, with deep_layer_sizes = [1] and wide_embed_dim = 1
LatentDim(c) == IF c.model_type = "wide_deep" THEN 2 ELSE 1

\* initial_lr_wide, initial_lr_deep and the rate of the two combination
\* layers of the wide and deep model: 0.01
initial_lr_wide == <<1, 100>>
initial_lr_deep == <<1, 100>>
combine_lr == <<1, 100>>

\* The learning rates of the optimizer's parameter groups after do_step has
\* set them for the step: base / (1 + decay * step) for the wide and the deep
\* group; the combination layers keep their rate.
StepRates(c, step) ==
  LET lr_wide == QMul(initial_lr_wide, Norm(1, 1 + c.lr_decay_rate_wide * step))
      lr_deep == QMul(initial_lr_deep, Norm(1, 1 + c.lr_decay_rate_deep * step))
  IN IF c.model_type = "deep" THEN << lr_deep >>
     ELSE IF c.model_type = "wide" THEN << lr_wide >>
     ELSE << lr_wide, lr_deep, combine_lr, combine_lr >>

\* param_dict as __init__ builds it
InitialRates(c) == StepRates(c, 0)

\* The approximator and its optimizer after construction.  version counts
\* the training steps applied to the parameters; lr is the rate of each
\* parameter group; batches, steps, lr_entry and scaled_seen describe the last
\* update(): the minibatches it sampled, the step indices it passed to
\* do_step, the rates of the groups when its training loop began, and the
\* scaled_contexts its minibatches were drawn from.
NewApproximator(c) ==
  [ version |-> 0, lr |-> InitialRates(c), batches |-> 0, steps |-> << >>,
    lr_entry |-> InitialRates(c), scaled_seen |-> << >> ]

\* mu, cov, precision, a, b as __init__ sets them (entry i+1 is action i)
PriorPosterior(c) ==
  [ mu |-> [ i \in 1 .. num_actions |-> [ j \in 1 .. LatentDim(c) |-> Q(0) ] ],
    cov |-> [ i \in 1 .. num_actions |->
                ScaledEye(QDiv(Q(1), lambda_prior), LatentDim(c)) ],
    precision |-> [ i \in 1 .. num_actions |->
                      ScaledEye(lambda_prior, LatentDim(c)) ],
    a |-> [ i \in 1 .. num_actions |-> Q(a0) ],
    b |-> [ i \in 1 .. num_actions |-> Q(b0) ] ]

\* The checks at the head of __init__
possible_models == {"deep", "wide", "wide_deep"}

possible_combine_methods ==
  {"add", "concat_reward", "concat_reward_llr", "concat_representation_llr"}

ConfigAccepted(c) ==
  /\ c.model_type \in possible_models
  /\ c.wd_combine_method \in possible_combine_methods

\* what the agent's attributes are when __init__ raised: there is no agent
Unbuilt == "unbuilt"

\* Wide_Deep_Bandits.__init__
AgentInit(c) ==
  /\ cfg = c
  /\ t = 0
  /\ data_h = NewDataset(-1)
  /\ latent_h = NewDataset(-1)
  /\ user_dict = (0 :> 0)
  /\ current_user_size = 1
  /\ post = PriorPosterior(c)
  /\ nn = NewApproximator(c)
  /\ ret = [ op |-> "init", arg |-> -1, val |-> -1, raised |-> "none" ]
  /\ nDecide = 0

(***************************************************************************)
(* The approximator (external): representations and forward values         *)
(***************************************************************************)
\* Wide_Model.get_representation: the embedding of user_idx under version w
WideRep(w, user_idx) == [ w |-> w, u |-> user_idx, c |-> RealOfInt(0) ]

\* Deep_Model.get_representation: the hidden layer of context c under version w
DeepRep(w, c) == [ w |-> w, u |-> -1, c |-> c ]

\* Wide_Deep_Bandits.get_representation
GetRepresentation(c, w, user_idx, context) ==
  IF c.model_type = "deep" THEN << DeepRep(w, context) >>
  ELSE IF c.model_type = "wide" THEN << WideRep(w, user_idx) >>
  ELSE << WideRep(w, user_idx), DeepRep(w, context) >>

\* The number a latent component stands for (NaN in, NaN out)
Num(comp) ==
  IF IsNaNReal(comp.c) THEN NaNQ
  ELSE Q((comp.w + comp.u + 2 + comp.c.sgn + (comp.c.sq[1] \div 2)
          + 2 * comp.c.sq[2]) % 3)

NumVec(z) == [ j \in 1 .. Len(z) |-> Num(z[j]) ]

(***************************************************************************)
(* User registry                                                           *)
(***************************************************************************)
\* Wide_Deep_Bandits.lookup_one_user_idx
LookupOneUnknownIsOne(ud, user_id) ==
  IF user_id \notin DOMAIN ud THEN 1 ELSE ud[user_id]

LookupOne(ud, user_id) ==
  IF user_id \notin DOMAIN ud THEN 0 ELSE ud[user_id]

\* Wide_Deep_Bandits.lookup_user_idxs: [self.user_dict[u] for u in user_ids]
LookupUserIdxsUnknownIsZero(ud, user_ids) ==
  [ val |-> [ k \in 1 .. Len(user_ids) |-> LookupOne(ud, user_ids[k]) ],
    raised |-> "none" ]

LookupUserIdxs(ud, user_ids) ==
  IF \E k \in 1 .. Len(user_ids) : user_ids[k] \notin DOMAIN ud
  THEN [ val |-> <<>>, raised |-> "KeyError" ]
  ELSE [ val |-> [ k \in 1 .. Len(user_ids) |-> ud[user_ids[k]] ],
         raised |-> "none" ]

\* Wide_Deep_Bandits.update_user_dict: the new user_dict and current_user_size
UpdateUserDictAlways(ud, size, user_id) ==
  [ dict |-> [ u \in DOMAIN ud \cup {user_id} |-> IF u = user_id THEN size ELSE ud[u] ],
    size |-> size + 1 ]

UpdateUserDict(ud, size, user_id) ==
  IF user_id \notin DOMAIN ud
  THEN [ dict |-> [ u \in DOMAIN ud \cup {user_id} |->
                      IF u = user_id THEN size ELSE ud[u] ],
         size |-> size + 1 ]
  ELSE [ dict |-> ud, size |-> size ]

(***************************************************************************)
(* Posterior refresh                                                       *)
(***************************************************************************)
\* The body of the loop of _update_actions for one action_v: the posterior
\* of action_v recomputed from all its rows in the latent buffer.
ActionPosteriorLastRow(c, lat, action_v) ==
  LET ind == SortedSeq(RowsOf(lat, action_v))
      d == LatentDim(c)
      z == << NumVec(lat.contexts[ind[Len(ind)]]) >>
      y == << Q(lat.rewards[ind[Len(ind)]][action_v + 1]) >>
      precision_a == MatAdd(Gram(z, d), ScaledEye(lambda_prior, d))
      cov_a == Inv(precision_a)
      mu_a == MatVec(cov_a, TransVec(z, y, d))
      a_post == QAdd(Q(a0), Norm(Len(z), 2))
      b_upd == QSub(QMul(Norm(1, 2), Dot(y, y)),
                    QMul(Norm(1, 2), Dot(mu_a, MatVec(precision_a, mu_a))))
  IN [ singular |-> Singular(precision_a),
       mu |-> mu_a, cov |-> cov_a, precision |-> precision_a,
       a |-> a_post, b |-> QAdd(Q(b0), b_upd) ]

ActionPosterior(c, lat, action_v) ==
  LET ind == SortedSeq(RowsOf(lat, action_v))
      d == LatentDim(c)
      z == [ k \in 1 .. Len(ind) |-> NumVec(lat.contexts[ind[k]]) ]
      y == [ k \in 1 .. Len(ind) |-> Q(lat.rewards[ind[k]][action_v + 1]) ]
      precision_a == MatAdd(Gram(z, d), ScaledEye(lambda_prior, d))
      cov_a == Inv(precision_a)
      mu_a == MatVec(cov_a, TransVec(z, y, d))
      a_post == QAdd(Q(a0), Norm(Len(z), 2))
      b_upd == QSub(QMul(Norm(1, 2), Dot(y, y)),
                    QMul(Norm(1, 2), Dot(mu_a, MatVec(precision_a, mu_a))))
  IN [ singular |-> Singular(precision_a),
       mu |-> mu_a, cov |-> cov_a, precision |-> precision_a,
       a |-> a_post, b |-> QAdd(Q(b0), b_upd) ]

\* _update_actions over the actions still to do (ascending, as np.unique
\* gives them); a singular precision raises and leaves the rest untouched.
RECURSIVE UpdateActionsFrom(_, _, _, _)
UpdateActionsFrom(c, lat, p, todo) ==
  IF Len(todo) = 0 THEN [ post |-> p, raised |-> "none" ]
  ELSE LET v == todo[1]
           n == ActionPosterior(c, lat, v)
       IN IF n.singular THEN [ post |-> p, raised |-> "LinAlgError" ]
          ELSE UpdateActionsFrom(c, lat,
                 [ mu |-> [ p.mu EXCEPT ![v + 1] = n.mu ],
                   cov |-> [ p.cov EXCEPT ![v + 1] = n.cov ],
                   precision |-> [ p.precision EXCEPT ![v + 1] = n.precision ],
                   a |-> [ p.a EXCEPT ![v + 1] = n.a ],
                   b |-> [ p.b EXCEPT ![v + 1] = n.b ] ],
                 Tail(todo))

\* Wide_Deep_Bandits._update_actions
UpdateActionsCountAllRows(c, lat, p) ==
  LET r == UpdateActionsFrom(c, lat, p,
                             SortedSeq({ lat.actions[i] : i \in 1 .. Len(lat.actions) }))
  IN [ r EXCEPT !.post.a = [ i \in 1 .. num_actions |->
                               QAdd(Q(a0), Norm(Len(lat.actions), 2)) ] ]

UpdateActions(c, lat, p) ==
  UpdateActionsFrom(c, lat, p,
                    SortedSeq({ lat.actions[i] : i \in 1 .. Len(lat.actions) }))

(***************************************************************************)
(* Calls on the stand-alone buffer                                         *)
(***************************************************************************)
\* The file uses pd (pandas) and pickle and imports neither: imported as a
\* module it has neither name; run where they are bound (the notebook it was
\* exported from) it has both.
Namespaces == { {}, {"pd", "pickle"} }

\* the caller holds no context tensor yet
NoTensor == [ x |-> RealOfInt(0), observed |-> 0 ]

\* the threads that call update() on one agent
Threads == 1 .. 2

\* no update() call is in progress and none has been made; mutex tells whether
\* the callers serialize their calls on the agent
NoCalls ==
  [ pc |-> [ th \in Threads |-> "idle" ],
    raised |-> [ th \in Threads |-> "none" ],
    mutex |-> FALSE,
    trained |-> << >>, refreshed |-> << >>, replaced |-> << >> ]

\* the file at the path given to save(), before any save
NoFile == [ kind |-> "absent", agent |-> <<>> ]

\* One event of a bulk ingestion: <<user id, context, action, reward>>
IngestEvents == { <<7, 1, 0, 1>>, <<8, 2, 1, 16777217>> }

Batches == UNION { [ 1 .. k -> IngestEvents ] : k \in BatchLens }

Column(batch, c) == [ i \in 1 .. Len(batch) |-> batch[i][c] ]

\* the sequence named by defect has one element fewer than the others
Cut(s, name, defect) == IF name = defect THEN SubSeq(s, 1, Len(s) - 1) ELSE s

BufInit ==
  /\ blob = NoFile
  /\ caller = NoTensor
  /\ threads = NoCalls
  /\ buf \in { NewDataset(m) : m \in MemorySizes }
  /\ bufRet = [ op |-> "init", raised |-> "none", calls |-> 0 ]

\* buf.add(user_id, context, action, reward)
BufAdd(user_id, context, action, reward) ==
  /\ bufRet.calls < MaxCalls
  /\ UNCHANGED <<namespace, blob, caller, threads>>
  /\ LET res == AddOutcome(buf, user_id, context, action, reward)
     IN /\ buf' = res.ds
        /\ bufRet' = [ op |-> "add", raised |-> res.raised,
                       calls |-> bufRet.calls + 1 ]

\* buf._ingest_data(user_ids, contexts, actions, rewards); its first statement
\* reads the name pd, which the file does not import
BufIngest(batch, defect) ==
  /\ defect # "none" => Len(batch) > 0
  /\ bufRet.calls < MaxCalls
  /\ UNCHANGED <<namespace, blob, caller, threads>>
  /\ LET res == IF "pd" \notin namespace
                THEN [ ds |-> buf, raised |-> "NameError" ]
                ELSE Ingest(buf, Cut(Column(batch, 1), "user_ids", defect),
                                 Cut(Column(batch, 2), "contexts", defect),
                                 Cut(Column(batch, 3), "actions", defect),
                                 Cut(Column(batch, 4), "rewards", defect))
     IN /\ buf' = res.ds
        /\ bufRet' = [ op |-> "ingest", raised |-> res.raised,
                       calls |-> bufRet.calls + 1 ]

AddNext ==
  /\ \E u \in BufUserIds, c \in BufContexts, a \in Actions, r \in BufRewards :
       BufAdd(u, c, a, r)
  /\ UNCHANGED agentVars

IngestNext ==
  /\ \E batch \in Batches, defect \in Defects : BufIngest(batch, defect)
  /\ UNCHANGED agentVars

\* add() of one of the events the batches are made of
AddEventNext ==
  /\ \E e \in IngestEvents : BufAdd(e[1], e[2], e[3], e[4])
  /\ UNCHANGED agentVars

(***************************************************************************)
(* Wide_Deep_Bandits: update (record) and action (decide)                  *)
(***************************************************************************)
\* Wide_Deep_Bandits.train: do_step runs num_steps times, except when t = 1;
\* every step leaves a new parameter version.
TrainAtFirstEvent(c, approx, time, data) ==
  [ version |-> approx.version + c.num_epochs,
    lr |-> StepRates(c, c.num_epochs - 1),
    batches |-> c.num_epochs,
    steps |-> [ k \in 1 .. c.num_epochs |-> k - 1 ],
    lr_entry |-> approx.lr,
    scaled_seen |-> data.scaled_contexts ]

Train(c, approx, time, data) ==
  LET n == IF time # 1 THEN c.num_epochs ELSE 0
  IN [ version |-> approx.version + n,
       lr |-> IF n = 0 THEN approx.lr ELSE StepRates(c, n - 1),
       batches |-> c.num_epochs,
       steps |-> [ k \in 1 .. n |-> k - 1 ],
       lr_entry |-> approx.lr,
       scaled_seen |-> data.scaled_contexts ]

\* an update() that does not call train()
NoTrain(approx) ==
  [ approx EXCEPT !.batches = 0, !.steps = << >>, !.lr_entry = approx.lr,
                  !.scaled_seen = << >> ]

\* Wide_Deep_Bandits._replace_latent_h: the latent buffer with every context
\* recomputed from the raw buffer (scaled, when do_scaling) under approx.
ReplaceLatentLastRow(c, approx, raw, lat) ==
  ReplaceData(lat,
    [ i \in 1 .. Len(lat.contexts) |->
        IF i = Len(lat.contexts)
        THEN GetRepresentation(c, approx.version, lat.user_ids[i],
                               GetContexts(raw, c.do_scaling)[i])
        ELSE lat.contexts[i] ])

ReplaceLatent(c, approx, raw, lat) ==
  ReplaceData(lat,
    [ i \in 1 .. Len(raw.contexts) |->
        GetRepresentation(c, approx.version, lat.user_ids[i],
                          GetContexts(raw, c.do_scaling)[i]) ])

\* The latent buffer that the _update_actions() call of update() reads: the
\* one the call found, since latent_h.add comes after it.
RefreshReadsAppended(found, appended) == appended

RefreshReads(found, appended) == found

\* Wide_Deep_Bandits.update, the whole call
Update(user_id, context, action, reward) ==
  /\ LET t1 == t + 1
         retrain == t1 % cfg.update_freq_nn = 0
         refresh == t1 % cfg.update_freq_lr = 0
         d1 == Add(data_h, user_id, context, action, reward)
         reg == UpdateUserDict(user_dict, current_user_size, user_id)
         \* train(): scale_contexts() and the steps
         d2 == IF retrain THEN ScaleContexts(d1) ELSE d1
         nn1 == IF retrain THEN Train(cfg, nn, t1, d2) ELSE NoTrain(nn)
         \* if self.t > 1: context = self.data_h.scale_contexts(contexts=context)[0]
         d3 == IF t1 > 1 THEN ScaleContexts(d2) ELSE d2
         cval == IF t1 > 1 THEN ScaleValue(context, d2.contexts)
                 ELSE RealOfInt(context)
         user_idx == LookupOne(reg.dict, user_id)
         z_context == GetRepresentation(cfg, nn1.version, user_idx, cval)
         l1 == Add(latent_h, user_idx, z_context, action, reward)
         upd == IF refresh
                THEN UpdateActions(cfg, RefreshReads(latent_h, l1), post)
                ELSE [ post |-> post, raised |-> "none" ]
         d4 == IF retrain /\ cfg.do_scaling THEN ScaleContexts(d3) ELSE d3
         l2 == IF retrain THEN ReplaceLatent(cfg, nn1, d4, l1) ELSE l1
     IN /\ t' = t1
        /\ user_dict' = reg.dict
        /\ current_user_size' = reg.size
        /\ nn' = nn1
        /\ post' = upd.post
        /\ IF upd.raised # "none"
           THEN /\ data_h' = d2
                /\ latent_h' = latent_h
           ELSE /\ data_h' = d4
                /\ latent_h' = l2
        /\ ret' = [ op |-> "update", arg |-> -1, val |-> -1,
                    raised |-> upd.raised ]
  /\ UNCHANGED <<cfg, nDecide>>

\* np.argmax: the first index of the maximum; a NaN counts as the maximum
Argmax(vals) ==
  LET n == Len(vals)
      nans == { i \in 1 .. n : IsNaNQ(vals[i]) }
      best == { i \in 1 .. n : \A j \in 1 .. n : ~QLess(vals[i], vals[j]) }
  IN (IF nans # {} THEN CHOOSE i \in nans : \A j \in nans : i <= j
      ELSE CHOOSE i \in best : \A j \in best : i <= j) - 1

\* The value of the network's forward pass for each action (external)
Forward(c, w, user_idx, context) ==
  [ i \in 1 .. num_actions |->
      IF c.model_type # "wide" /\ IsNaNReal(context) THEN NaNQ
      ELSE Q((w + i
              + (IF c.model_type # "deep" THEN user_idx ELSE 0)
              + (IF c.model_type # "wide"
                 THEN context.sgn + 1 + context.sq[1] + context.sq[2] ELSE 0)) % 3) ]

\* expected_values(method="forward") of a wide_deep model combined by
\* concat_reward reads self.hparams, an attribute the agent does not have
ForwardFails(c) ==
  c.model_type = "wide_deep" /\ c.wd_combine_method = "concat_reward"

\* expected_values(method="BLR"): mu[i] . z_context
ExpectedValues(p, z) == [ i \in 1 .. num_actions |-> Dot(p.mu[i], NumVec(z)) ]

HasNaN(M) == \E i \in 1 .. Len(M) : \E j \in 1 .. Len(M) : IsNaNQ(M[i][j])

\* _sample: np.random.multivariate_normal fails (LinAlgError) on a covariance
\* b * sigma * cov with NaN entries
SampleFails(p) ==
  \E i \in 1 .. num_actions : IsNaNQ(p.b[i]) \/ HasNaN(p.cov[i])

\* The action indices argmax(vals) can take for the method: one for the
\* deterministic scores, any for a Thompson draw of a non-zero representation.
Choices(c, p, w, method, user_idx, context) ==
  LET z == GetRepresentation(c, w, user_idx, context)
      zs == NumVec(z)
  IN IF method = "forward" THEN { Argmax(Forward(c, w, user_idx, context)) }
     ELSE IF method = "BLR" THEN { Argmax(ExpectedValues(p, z)) }
     ELSE IF \A j \in 1 .. Len(zs) : zs[j] = Q(0) \/ IsNaNQ(zs[j]) THEN { 0 }
     ELSE Actions

\* Round robin until each action has been selected initial_pulls times
InWarmUpOnce(c, time) == time < c.initial_pulls

InWarmUp(c, time) == time < num_actions * c.initial_pulls

WarmUpFirstAction(time) == 0

WarmUpAction(time) == time % num_actions

\* possible_methods of action()
possible_methods == {"BLR_TS", "BLR", "forward"}

AnyMethod(method) == TRUE

PossibleMethod(method) == method \in possible_methods

\* Wide_Deep_Bandits.action, the whole call
DecideCountsEvent(user_id, context, method) ==
  /\ nDecide' = nDecide + 1
  /\ t' = t + 1
  /\ ret' = [ op |-> "action", arg |-> -1, val |-> WarmUpAction(t),
              raised |-> "none" ]
  /\ UNCHANGED <<cfg, data_h, latent_h, user_dict, current_user_size, post, nn>>

Decide(user_id, context, method) ==
  /\ nDecide' = nDecide + 1
  /\ IF ~PossibleMethod(method)
     THEN /\ ret' = [ op |-> "action", arg |-> -1, val |-> -1,
                      raised |-> "NameError" ]
          /\ UNCHANGED data_h
     ELSE IF InWarmUp(cfg, t)
     THEN /\ ret' = [ op |-> "action", arg |-> -1, val |-> WarmUpAction(t),
                      raised |-> "none" ]
          /\ UNCHANGED data_h
     ELSE IF cfg.do_scaling /\ data_h.contexts_none
     THEN /\ ret' = [ op |-> "action", arg |-> -1, val |-> -1,
                      raised |-> "AttributeError" ]
          /\ UNCHANGED data_h
     ELSE LET d1 == IF cfg.do_scaling THEN ScaleContexts(data_h) ELSE data_h
              cval == IF cfg.do_scaling THEN ScaleValue(context, data_h.contexts)
                      ELSE RealOfInt(context)
              user_idx == LookupOne(user_dict, user_id)
          IN /\ data_h' = d1
             /\ IF \/ method = "BLR_TS" /\ SampleFails(post)
                   \/ method = "forward" /\ ForwardFails(cfg)
                THEN ret' = [ op |-> "action", arg |-> -1, val |-> -1,
                              raised |-> "AttributeError" ]
                ELSE \E v \in Choices(cfg, post, nn.version, method, user_idx, cval) :
                       ret' = [ op |-> "action", arg |-> -1, val |-> v,
                                raised |-> "none" ]
  /\ UNCHANGED <<cfg, t, latent_h, user_dict, current_user_size, post, nn>>

\* Wide_Deep_Bandits.lookup_one_user_idx called on its own
Lookup(user_id) ==
  /\ ret' = [ op |-> "lookup", arg |-> user_id,
              val |-> LookupOne(user_dict, user_id), raised |-> "none" ]
  /\ UNCHANGED <<cfg, t, data_h, latent_h, user_dict, current_user_size, post,
                 nn, nDecide>>

\* Wide_Deep_Bandits.lookup_user_idxs called on its own
LookupMany(user_ids) ==
  /\ LET res == LookupUserIdxs(user_dict, user_ids)
     IN ret' = [ op |-> "lookup_many", arg |-> user_ids, val |-> res.val,
                 raised |-> res.raised ]
  /\ UNCHANGED <<cfg, t, data_h, latent_h, user_dict, current_user_size, post,
                 nn, nDecide>>

\* Wide_Deep_Bandits.update_user_dict called on its own
Register(user_id) ==
  /\ LET reg == UpdateUserDict(user_dict, current_user_size, user_id)
     IN /\ user_dict' = reg.dict
        /\ current_user_size' = reg.size
  /\ ret' = [ op |-> "register", arg |-> user_id, val |-> -1, raised |-> "none" ]
  /\ UNCHANGED <<cfg, t, data_h, latent_h, post, nn, nDecide>>

(***************************************************************************)
(* Specifications                                                          *)
(***************************************************************************)
FixedConfig ==
  [ initial_pulls |-> 1, update_freq_nn |-> 1, update_freq_lr |-> 1,
    num_epochs |-> 2, do_scaling |-> TRUE, model_type |-> "wide_deep",
    wd_combine_method |-> "concat_representation_llr", reset_lr |-> TRUE,
    lr_decay_rate_wide |-> 1, lr_decay_rate_deep |-> 1 ]

IdleBuf ==
  /\ namespace = {}
  /\ blob = NoFile
  /\ caller = NoTensor
  /\ threads = NoCalls
  /\ buf = NewDataset(-1)
  /\ bufRet = [ op |-> "init", raised |-> "none", calls |-> 0 ]

\* update() with any reward
UpdateNext ==
  /\ t < MaxT
  /\ \E u \in UserIds, c \in Contexts, a \in Actions, r \in Rewards :
       Update(u, c, a, r)
  /\ UNCHANGED bufVars

\* update() of user 7 with reward 1
RecordNext ==
  /\ t < MaxT
  /\ \E c \in Contexts, a \in Actions : Update(7, c, a, 1)
  /\ UNCHANGED bufVars

\* update() of one fixed event for any user
RegistryUpdateNext ==
  /\ t < MaxT
  /\ \E u \in RegistryIds : Update(u, 1, 0, 1)
  /\ UNCHANGED bufVars

DecideNext ==
  /\ nDecide < MaxDecides
  /\ \E u \in DecideIds, c \in Contexts, m \in Methods : Decide(u, c, m)
  /\ UNCHANGED bufVars

LookupNext ==
  /\ \E u \in LookupIds : Lookup(u)
  /\ UNCHANGED bufVars

\* the id lists of lookup_user_idxs: one or two ids
IdLists == UNION { [ 1 .. k -> LookupIds ] : k \in 1 .. 2 }

LookupManyNext ==
  /\ \E ids \in IdLists : LookupMany(ids)
  /\ UNCHANGED bufVars

RegisterNext ==
  /\ \E u \in RegistryIds : Register(u)
  /\ UNCHANGED bufVars

\* self.latent_h.add(user_idx, z_context, action, reward) on its own, with the
\* representation of a (user index, unscaled context) pair
LatentAddNext ==
  /\ Len(latent_h.contexts) < MaxLatentRows
  /\ \E i \in 0 .. 1, c \in Contexts, a \in Actions, r \in Rewards :
       latent_h' = Add(latent_h, i,
                       GetRepresentation(cfg, nn.version, i, RealOfInt(c)), a, r)
  /\ ret' = [ op |-> "latent_add", arg |-> -1, val |-> -1, raised |-> "none" ]
  /\ UNCHANGED <<cfg, t, data_h, user_dict, current_user_size, post, nn, nDecide>>
  /\ UNCHANGED bufVars

\* self._update_actions() on its own
RefreshNext ==
  /\ LET upd == UpdateActions(cfg, latent_h, post)
     IN /\ post' = upd.post
        /\ ret' = [ op |-> "refresh", arg |-> -1, val |-> -1,
                    raised |-> upd.raised ]
  /\ UNCHANGED <<cfg, t, data_h, latent_h, user_dict, current_user_size, nn, nDecide>>
  /\ UNCHANGED bufVars

\* what pickle.dump(self, f) writes: every attribute of the agent
Pickled ==
  [ cfg |-> cfg, t |-> t, data_h |-> data_h, latent_h |-> latent_h,
    user_dict |-> user_dict, current_user_size |-> current_user_size,
    post |-> post, nn |-> nn ]

\* Wide_Deep_Bandits.save: open(path, 'wb') creates or empties the file, then
\* pickle.dump(self, f) reads the name pickle, which the file does not import
Save ==
  /\ IF "pickle" \notin namespace
     THEN /\ blob' = [ kind |-> "empty", agent |-> <<>> ]
          /\ ret' = [ op |-> "save", arg |-> -1, val |-> -1,
                      raised |-> "NameError" ]
     ELSE /\ blob' = [ kind |-> "pickle", agent |-> Pickled ]
          /\ ret' = [ op |-> "save", arg |-> -1, val |-> -1, raised |-> "none" ]
  /\ UNCHANGED <<cfg, t, data_h, latent_h, user_dict, current_user_size, post,
                 nn, nDecide>>
  /\ UNCHANGED <<namespace, buf, bufRet, caller, threads>>

\* The restore of the agent from the saved file, replacing the agent at hand
Restore ==
  /\ IF blob.kind = "pickle"
     THEN /\ cfg' = blob.agent.cfg
          /\ t' = blob.agent.t
          /\ data_h' = blob.agent.data_h
          /\ latent_h' = blob.agent.latent_h
          /\ user_dict' = blob.agent.user_dict
          /\ current_user_size' = blob.agent.current_user_size
          /\ post' = blob.agent.post
          /\ nn' = blob.agent.nn
          /\ ret' = [ op |-> "restore", arg |-> -1, val |-> -1, raised |-> "none" ]
     ELSE /\ UNCHANGED <<cfg, t, data_h, latent_h, user_dict,
                         current_user_size, post, nn>>
          /\ ret' = [ op |-> "restore", arg |-> -1, val |-> -1,
                      raised |-> IF blob.kind = "empty" THEN "EOFError"
                                 ELSE "FileNotFoundError" ]
  /\ UNCHANGED <<nDecide, namespace, blob, buf, bufRet, caller, threads>>

SaveInit ==
  /\ namespace \in Namespaces
  /\ blob = NoFile
  /\ caller = NoTensor
  /\ threads = NoCalls
  /\ buf = NewDataset(-1)
  /\ bufRet = [ op |-> "init", raised |-> "none", calls |-> 0 ]
  /\ AgentInit(FixedConfig)

SaveNext == RecordNext \/ Save \/ Restore

\* The agent under update, save and restore calls
SpecSave == SaveInit /\ [][SaveNext]_vars

\* Wide_Deep_Bandits(...) with any model type and combine method: the agent,
\* or the NameError of the rejected arguments
Construct(c) ==
  IF ConfigAccepted(c) THEN AgentInit(c)
  ELSE /\ cfg = c
       /\ t = Unbuilt /\ data_h = Unbuilt /\ latent_h = Unbuilt
       /\ user_dict = Unbuilt /\ current_user_size = Unbuilt
       /\ post = Unbuilt /\ nn = Unbuilt
       /\ ret = [ op |-> "init", arg |-> -1, val |-> -1, raised |-> "NameError" ]
       /\ nDecide = 0

ConstructConfigs ==
  [ initial_pulls : {1},
    update_freq_nn : {1},
    update_freq_lr : {1},
    num_epochs : {2},
    do_scaling : {FALSE},
    model_type : possible_models \cup {"other"},
    wd_combine_method : possible_combine_methods \cup {"other"},
    reset_lr : {TRUE},
    lr_decay_rate_wide : {1},
    lr_decay_rate_deep : {1} ]

ConstructInit == IdleBuf /\ \E c \in ConstructConfigs : Construct(c)

\* calls are made on agents that exist
ConstructNext == ConfigAccepted(cfg) /\ (RecordNext \/ DecideNext)

\* Agents of every model type and combine method under update and action calls
SpecConstruct == ConstructInit /\ [][ConstructNext]_vars

\* The agent under update and action calls
Init == IdleBuf /\ \E c \in Configs : AgentInit(c)

Next == RecordNext \/ DecideNext

Spec == Init /\ [][Next]_vars

\* The agent under update calls
SpecUpdate == Init /\ [][UpdateNext]_vars

\* The user registry under update, register and lookup calls
RegistryInit == IdleBuf /\ AgentInit(FixedConfig)

RegistryNext ==
  RegistryUpdateNext \/ RegisterNext \/ LookupNext \/ LookupManyNext

SpecRegistry == RegistryInit /\ [][RegistryNext]_vars

\* The posteriors refreshed from a latent buffer filled by hand
RefreshSpecNext == LatentAddNext \/ RefreshNext

SpecRefresh == RegistryInit /\ [][RefreshSpecNext]_vars

\* A stand-alone buffer built by add calls only
AddInit == namespace = {} /\ BufInit /\ AgentInit(FixedConfig)

SpecAdd == AddInit /\ [][AddNext]_vars

\* A stand-alone buffer under add and bulk ingestion
BufferNext == AddEventNext \/ IngestNext

BufferInit == namespace \in Namespaces /\ BufInit /\ AgentInit(FixedConfig)

SpecBuffer == BufferInit /\ [][BufferNext]_vars

(***************************************************************************)
(* Claims about the stand-alone buffer                                     *)
(***************************************************************************)
\* C1: after every add call, with or without a memory bound, user_ids,
\* contexts, actions and the rows of rewards have the same length.
C1_EqualLengths ==
  /\ Len(buf.user_ids) = Len(buf.contexts)
  /\ Len(buf.contexts) = Len(buf.actions)
  /\ Len(buf.actions) = Len(buf.rewards)

\* a bounded buffer that has evicted, and an unbounded one with three rows
C1_Witness ==
  /\ bufRet.op = "add"
  /\ bufRet.calls = 3
  /\ Len(buf.actions) = IF buf.memory_size = -1 THEN 3 ELSE buf.memory_size

\* v is a single-precision value nearest to the integer r (|r| < 2^25)
NearestSingle(v, r) ==
  LET Single(x) == Abs(x) <= 16777216 \/ x % 2 = 0
  IN /\ Single(v)
     /\ \A w \in r - 1 .. r + 1 : Single(w) => Abs(v - r) <= Abs(w - r)

\* C2 as stated: after add(user_id, context, action, reward) every row of
\* rewards has exactly one non-zero entry, in the column of the row's action,
\* and the new row holds the reward that was given.
C2_OneNonZeroEntry ==
  [][ \A u \in BufUserIds, c \in BufContexts, a \in Actions, r \in BufRewards :
        BufAdd(u, c, a, r) =>
          /\ \A i \in 1 .. Len(buf'.rewards) :
               { j \in 1 .. num_actions : buf'.rewards[i][j] # 0 }
                 = { buf'.actions[i] + 1 }
          /\ buf'.rewards[Len(buf'.rewards)][a + 1] = r ]_vars

\* C2 amended: after add(user_id, context, action, reward) every row of
\* rewards is zero outside the column of the row's action, and the new row
\* holds in that column the reward rounded to single precision (so the row
\* has one non-zero entry exactly when that value is not zero).
C2_RewardInActionColumn ==
  [][ \A u \in BufUserIds, c \in BufContexts, a \in Actions, r \in BufRewards :
        BufAdd(u, c, a, r) =>
          /\ \A i \in 1 .. Len(buf'.rewards) :
               /\ Len(buf'.rewards[i]) = num_actions
               /\ \A j \in 1 .. num_actions :
                    j # buf'.actions[i] + 1 => buf'.rewards[i][j] = 0
          /\ buf'.actions[Len(buf'.actions)] = a
          /\ NearestSingle(buf'.rewards[Len(buf'.rewards)][a + 1], r) ]_vars

\* a buffer holding an all-zero row (reward 0) and a rounded reward
C2_Witness ==
  /\ bufRet.op = "add"
  /\ \E i, k \in 1 .. Len(buf.rewards) :
       /\ \A j \in 1 .. num_actions : buf.rewards[i][j] = 0
       /\ buf.rewards[k][buf.actions[k] + 1] = 16777216

IsPrefix(s, r) == Len(s) <= Len(r) /\ SubSeq(r, 1, Len(s)) = s

\* C4: a bulk ingestion whose rows would bring a memory-bounded buffer above
\* memory_size raises (also on the empty buffer) and leaves user_ids,
\* contexts, actions and rewards as they were; no bulk ingestion removes rows.
C4_IngestBeyondCapacityFails ==
  [][ \A batch \in Batches, defect \in Defects :
        BufIngest(batch, defect) =>
          /\ (buf.memory_size # -1 /\ DsLen(buf) + Len(batch) > buf.memory_size) =>
               /\ bufRet'.raised # "none"
               /\ buf' = buf
          /\ IsPrefix(buf.user_ids, buf'.user_ids)
          /\ IsPrefix(buf.contexts, buf'.contexts)
          /\ IsPrefix(buf.actions, buf'.actions)
          /\ IsPrefix(buf.rewards, buf'.rewards) ]_vars

\* a non-empty bounded buffer that has refused a batch, its rows still there
C4_Witness ==
  /\ bufRet.op = "ingest"
  /\ bufRet.raised = "Exception"
  /\ buf.memory_size # -1
  /\ Len(buf.actions) = buf.memory_size

(***************************************************************************)
(* Claims about the warm-up of action()                                    *)
(***************************************************************************)
\* C5: while 0 <= t < num_actions * initial_pulls, action() called with a
\* valid method returns t mod num_actions, whatever the user id, the context,
\* the method, the posteriors and the buffers.
\* (action() leaves t as it is, and a NameError is what an invalid method gives)
C5_WarmUpRoundRobin ==
  (/\ ret.op = "action"
   /\ ret.raised # "NameError"
   /\ t >= 0
   /\ t < num_actions * cfg.initial_pulls) =>
     /\ ret.raised = "none"
     /\ ret.val = t % num_actions

\* a warm-up call after one completed update, answering 1
C5_Witness ==
  /\ ret.op = "action"
  /\ ret.raised = "none"
  /\ t < num_actions * cfg.initial_pulls
  /\ t % num_actions = 1
  /\ ret.val = 1
  /\ ~data_h.contexts_none

\* C6 as stated: with num_actions = 2 and initial_pulls = 1, in every call
\* sequence on a fresh agent the first action() call returns 0 and the
\* second returns 1.
C6_FirstTwoCallsInAnySequence ==
  (/\ cfg.initial_pulls = 1
   /\ ret.op = "action"
   /\ ret.raised # "NameError") =>
     /\ nDecide = 1 => ret.val = 0
     /\ nDecide = 2 => ret.val = 1

\* C6 amended: with num_actions = 2 and initial_pulls = 1, the k-th action()
\* call on a fresh agent (k = 1, 2) returns k - 1 when exactly k - 1 update()
\* calls have completed before it: 0 then 1 in the sequence action, update,
\* action.
C6_FirstTwoCallsInterleaved ==
  (/\ cfg.initial_pulls = 1
   /\ ret.op = "action"
   /\ ret.raised # "NameError"
   /\ nDecide \in {1, 2}
   /\ t = nDecide - 1) =>
     /\ ret.raised = "none"
     /\ ret.val = nDecide - 1

\* the second action() call, made after one update(), has answered 1
C6_Witness ==
  /\ cfg.initial_pulls = 1
  /\ ret.op = "action"
  /\ nDecide = 2
  /\ t = 1
  /\ ret.val = 1

(***************************************************************************)
(* Claims about the latent buffer                                          *)
(***************************************************************************)
\* the latent row of raw event i under the current approximator, from the
\* context ctx
LatentRowOf(i, ctx) ==
  << [ w |-> nn.version, u |-> LookupOne(user_dict, data_h.user_ids[i]),
       c |-> RealOfInt(0) ],
     [ w |-> nn.version, u |-> -1, c |-> ctx ] >>

RetrainReturned ==
  /\ ret.op = "update"
  /\ ret.raised = "none"
  /\ t % cfg.update_freq_nn = 0

\* (x - mean) / std over xs, as a signed square root; NaN for a single row
Standardised(x, xs) ==
  LET n == Len(xs)
      dev == n * x - IntSum(xs)
      ss == IntSum([ k \in 1 .. n |-> (n * xs[k] - IntSum(xs)) * (n * xs[k] - IntSum(xs)) ])
  IN IF n < 2 THEN NaNReal
     ELSE IF ss = 0 THEN [ sgn |-> Sgn(dev), sq |-> Norm(dev * dev, n * n) ]
     ELSE [ sgn |-> Sgn(dev), sq |-> Norm(dev * dev * (n - 1), ss) ]

\* C7 as stated: when an update() that retrained the network returns, every
\* row i of the latent buffer is the representation of (user index i, raw
\* context i) under the retrained approximator.
C7_LatentOfRawContexts ==
  RetrainReturned =>
    /\ Len(latent_h.contexts) = Len(data_h.contexts)
    /\ \A i \in 1 .. Len(data_h.contexts) :
         latent_h.contexts[i] = LatentRowOf(i, RealOfInt(data_h.contexts[i]))

\* C7 amended: when an update() that retrained the network returns, the
\* latent buffer has one row per raw event and row i is the representation,
\* under the retrained approximator, of user index i and of raw context i
\* when do_scaling is off, of raw context i standardised by the mean and
\* standard deviation of the raw buffer when do_scaling is on; no row of an
\* older approximator version remains.
C7_LatentReconciled ==
  RetrainReturned =>
    /\ Len(latent_h.contexts) = Len(data_h.contexts)
    /\ \A i \in 1 .. Len(data_h.contexts) :
         /\ latent_h.contexts[i] =
              LatentRowOf(i, IF cfg.do_scaling
                             THEN Standardised(data_h.contexts[i], data_h.contexts)
                             ELSE RealOfInt(data_h.contexts[i]))
         /\ \A j \in 1 .. Len(latent_h.contexts[i]) :
              latent_h.contexts[i][j].w = nn.version

\* a retrain at t = 2 has rewritten the row stored at t = 1 under version 0
C7_Witness ==
  /\ RetrainReturned
  /\ t = 2
  /\ nn.version > 0
  /\ Len(latent_h.contexts) = 2
  /\ data_h.contexts[1] # data_h.contexts[2]

(***************************************************************************)
(* Claims about the user registry                                          *)
(***************************************************************************)
\* C8: lookup_one_user_idx of an id that was never registered returns 0,
\* does not raise and leaves user_dict and current_user_size unchanged; a
\* lookup repeated with no registration in between returns the same index.
C8_UnknownUserIsZero ==
  [][ \A u \in LookupIds :
        Lookup(u) =>
          /\ ret'.raised = "none"
          /\ user_dict' = user_dict
          /\ current_user_size' = current_user_size
          /\ u \notin DOMAIN user_dict => ret'.val = 0
          /\ (ret.op = "lookup" /\ ret.arg = u) => ret'.val = ret.val ]_vars

\* id 9, never registered, looked up next to two registered ids
C8_Witness ==
  /\ ret.op = "lookup"
  /\ ret.arg = 9
  /\ ret.val = 0
  /\ 9 \notin DOMAIN user_dict
  /\ current_user_size = 3

\* C9: over update() and update_user_dict() calls no id leaves user_dict and
\* no mapped id changes its index; update_user_dict of a known id leaves
\* user_dict and current_user_size unchanged.
C9_RegistryStable ==
  [][ /\ \A u \in DOMAIN user_dict :
           u \in DOMAIN user_dict' /\ user_dict'[u] = user_dict[u]
      /\ \A u \in RegistryIds :
           (Register(u) /\ u \in DOMAIN user_dict) =>
             user_dict' = user_dict /\ current_user_size' = current_user_size
    ]_vars

\* update_user_dict of an id that was registered before the newest one
C9_Witness ==
  /\ ret.op = "register"
  /\ ret.arg \in DOMAIN user_dict
  /\ ret.arg # 0
  /\ current_user_size = 3
  /\ user_dict[ret.arg] = 1

(***************************************************************************)
(* Claims about the posterior refresh                                      *)
(***************************************************************************)
\* the indices of the latent rows of action v, ascending
LatentRows(v) == SortedSeq({ i \in 1 .. Len(latent_h.actions) : latent_h.actions[i] = v })

Identity(d) == [ i \in 1 .. d |-> [ j \in 1 .. d |-> IF i = j THEN Q(1) ELSE Q(0) ] ]

\* C10: for every action with a row in the latent buffer, _update_actions
\* sets precision = Zt Z + lambda_prior I, cov = inverse(precision),
\* mu = cov Zt y and a = a0 + rows(Z) / 2, Z and y being all latent rows and
\* rewards of the action; a second refresh of the same buffer changes nothing.
C10_ClosedFormPosterior ==
  [][ RefreshNext =>
        /\ ret'.raised = "none"
        /\ \A v \in Actions :
             LET ind == LatentRows(v)
                 n == Len(ind)
                 d == Len(post'.mu[v + 1])
                 Z == [ k \in 1 .. n |-> NumVec(latent_h.contexts[ind[k]]) ]
                 y == [ k \in 1 .. n |-> Q(latent_h.rewards[ind[k]][v + 1]) ]
                 Zty == [ j \in 1 .. d |-> QSum([ k \in 1 .. n |-> QMul(Z[k][j], y[k]) ]) ]
             IN n > 0 =>
                  /\ \A i, j \in 1 .. d :
                       post'.precision[v + 1][i][j] =
                         QAdd(QSum([ k \in 1 .. n |-> QMul(Z[k][i], Z[k][j]) ]),
                              IF i = j THEN lambda_prior ELSE Q(0))
                  /\ MatMul(post'.cov[v + 1], post'.precision[v + 1]) = Identity(d)
                  /\ MatMul(post'.precision[v + 1], post'.cov[v + 1]) = Identity(d)
                  /\ post'.mu[v + 1] = MatVec(post'.cov[v + 1], Zty)
                  /\ QAdd(post'.a[v + 1], post'.a[v + 1]) = Q(2 * a0 + n)
        /\ ret.op = "refresh" => post' = post ]_vars

\* a refresh over two rows of one action with different representations
C10_Witness ==
  /\ ret.op = "refresh"
  /\ \E v \in Actions :
       /\ Len(LatentRows(v)) = 2
       /\ latent_h.contexts[LatentRows(v)[1]] # latent_h.contexts[LatentRows(v)[2]]
       /\ post.a[v + 1] = Q(7)
       /\ post.mu[v + 1] # PriorPosterior(cfg).mu[v + 1]

(***************************************************************************)
(* Claims about failures of action() and of the bulk ingestion             *)
(***************************************************************************)
\* C11: when the draw of the weight vector of some action fails during
\* Thompson sampling (its covariance cannot be used), action() still returns
\* an action index and does not raise.
C11_SamplingFailureRecovered ==
  [][ \A u \in DecideIds, c \in Contexts :
        (/\ Decide(u, c, "BLR_TS")
         /\ ~InWarmUp(cfg, t)
         /\ \E i \in 1 .. num_actions : IsNaNQ(post.b[i]) \/ HasNaN(post.cov[i])) =>
          /\ ret'.raised = "none"
          /\ ret'.val \in Actions ]_vars

\* C12: an unrecognised model type or combine method is rejected by the
\* constructor (NameError, no agent), and an unrecognised method is rejected
\* by action() in every state, warm-up included: the call raises, returns no
\* action, and t, the buffers, the registry and the posteriors are unchanged.
C12_InvalidOptionsRejected ==
  /\ [] ( (cfg.model_type = "other" \/ cfg.wd_combine_method = "other") =>
            /\ ret.op = "init" /\ ret.raised = "NameError"
            /\ t = Unbuilt /\ data_h = Unbuilt /\ latent_h = Unbuilt
            /\ user_dict = Unbuilt /\ post = Unbuilt )
  /\ [][ \A u \in DecideIds, c \in Contexts :
           Decide(u, c, "other") =>
             /\ ret'.raised = "NameError"
             /\ ret'.val \notin Actions
             /\ UNCHANGED <<cfg, t, data_h, latent_h, user_dict,
                            current_user_size, post, nn>> ]_vars

\* an invalid method refused during the warm-up, after one update
C12_Witness ==
  /\ ret.op = "action"
  /\ ret.raised = "NameError"
  /\ t = 1
  /\ t < num_actions * cfg.initial_pulls

\* C13: a bulk ingestion in which user_ids, contexts, actions and rewards do
\* not all have the same length fails and leaves the buffer unchanged, also
\* when only user_ids differs.
C13_UnequalLengthsRejected ==
  [][ \A batch \in Batches, defect \in Defects \ {"none"} :
        BufIngest(batch, defect) =>
          /\ bufRet'.raised # "none"
          /\ buf' = buf ]_vars

(***************************************************************************)
(* Claims about save and restore                                           *)
(***************************************************************************)
\* C14: saving an agent and restoring it gives an agent with the same state
\* (buffers, registry, posteriors, t, configuration): save() succeeds and the
\* file it leaves restores to the state the agent has.
C14_SaveRestoreSameState ==
  ret.op = "save" =>
    /\ ret.raised = "none"
    /\ blob.kind = "pickle"
    /\ blob.agent = Pickled

(***************************************************************************)
(* Claims about the posteriors                                             *)
(***************************************************************************)
\* C15: in every state reached by update() calls, every action's posterior
\* has a > 0 and b > 0, and its precision is invertible with cov its inverse.
C15_PosteriorWellFormed ==
  \A i \in 1 .. num_actions :
    /\ ~IsNaNQ(post.a[i]) /\ QLess(Q(0), post.a[i])
    /\ ~IsNaNQ(post.b[i]) /\ QLess(Q(0), post.b[i])
    /\ ~HasNaN(post.precision[i])
    /\ ~HasNaN(post.cov[i])
    /\ MatMul(post.cov[i], post.precision[i]) = Identity(Len(post.precision[i]))

(***************************************************************************)
(* Claims about lookup_user_idxs                                           *)
(***************************************************************************)
\* C16: lookup_user_idxs raises when one of the ids is not in user_dict (it
\* never answers 0 for an unknown id), answers the mapped indices when all
\* are known, and leaves user_dict and current_user_size unchanged.
C16_LookupManyFailsLoudly ==
  [][ \A ids \in IdLists :
        LookupMany(ids) =>
          /\ user_dict' = user_dict
          /\ current_user_size' = current_user_size
          /\ IF \E k \in 1 .. Len(ids) : ids[k] \notin DOMAIN user_dict
             THEN ret'.raised # "none" /\ ret'.val = <<>>
             ELSE /\ ret'.raised = "none"
                  /\ Len(ret'.val) = Len(ids)
                  /\ \A k \in 1 .. Len(ids) : ret'.val[k] = user_dict[ids[k]]
    ]_vars

\* a list of a registered id and the unknown id 9, refused
C16_Witness ==
  /\ ret.op = "lookup_many"
  /\ ret.raised = "KeyError"
  /\ Len(ret.arg) = 2
  /\ ret.arg[1] \in DOMAIN user_dict
  /\ ret.arg[1] # 0
  /\ ret.arg[2] = 9

(***************************************************************************)
(* Claims about action() after the warm-up                                 *)
(***************************************************************************)
\* v is the index of the first maximum of vals
IsFirstMax(v, vals) ==
  /\ v \in 0 .. Len(vals) - 1
  /\ \A j \in 1 .. Len(vals) : ~QLess(vals[v + 1], vals[j])
  /\ \A j \in 1 .. v : QLess(vals[j], vals[v + 1])

\* C17: after the warm-up, for each of the methods forward, BLR and BLR_TS
\* and each valid model type and combine method, action() returns an action
\* index, which for the deterministic scores (forward, BLR) is the lowest
\* index of a maximum score.
C17_ReturnsFirstArgmax ==
  [][ \A u \in DecideIds, c \in Contexts, m \in possible_methods :
        (Decide(u, c, m) /\ ~(t < num_actions * cfg.initial_pulls)) =>
          LET idx == IF u \in DOMAIN user_dict THEN user_dict[u] ELSE 0
              ctx == IF cfg.do_scaling THEN Standardised(c, data_h.contexts)
                     ELSE RealOfInt(c)
          IN /\ ret'.raised = "none"
             /\ ret'.val \in Actions
             /\ m = "forward" =>
                  IsFirstMax(ret'.val, Forward(cfg, nn.version, idx, ctx))
             /\ m = "BLR" =>
                  IsFirstMax(ret'.val,
                    [ i \in 1 .. num_actions |->
                        Dot(post.mu[i],
                            NumVec(GetRepresentation(cfg, nn.version, idx, ctx))) ])
    ]_vars

\* A caller that alternates action() and update(), always recording the
\* action that action() returned
MaxLoopT == 4

LoopDecideNext ==
  /\ ret.op # "action"
  /\ t <= MaxLoopT
  /\ \E c \in Contexts, m \in possible_methods : Decide(7, c, m)
  /\ UNCHANGED bufVars

LoopRecordNext ==
  /\ ret.op = "action"
  /\ ret.raised = "none"
  /\ \E c \in Contexts : Update(7, c, ret.val, 1)
  /\ UNCHANGED bufVars

LoopNext == LoopDecideNext \/ LoopRecordNext

SpecLoop == Init /\ [][LoopNext]_vars

\* number of rows of the raw buffer that record the action
Pulls(a) == Cardinality({ i \in 1 .. Len(data_h.actions) : data_h.actions[i] = a })

\* C18: when the caller alternates action() and update() and always records
\* the returned action, every action() call that is not answered by the
\* warm-up round robin (the first one included) finds every action recorded
\* at least initial_pulls times in the raw buffer.
C18_WarmUpCoversEveryAction ==
  (ret.op = "action" /\ t >= num_actions * cfg.initial_pulls) =>
    \A a \in Actions : Pulls(a) >= cfg.initial_pulls

C18_Witness ==
  /\ ret.op = "action"
  /\ ret.raised = "none"
  /\ cfg.initial_pulls = 2
  /\ t = num_actions * cfg.initial_pulls
  /\ nDecide = t + 1
  /\ \A a \in Actions : Pulls(a) = 2

\* the posterior of one action: its mu, cov, precision, a and b
PosteriorOf(p, v) ==
  [ mu |-> p.mu[v + 1], cov |-> p.cov[v + 1], precision |-> p.precision[v + 1],
    a |-> p.a[v + 1], b |-> p.b[v + 1] ]

\* C19: _update_actions leaves mu, cov, precision, a and b of every action
\* that has no row in the latent buffer as they were before the call, which
\* for an action never recorded is their prior values.
C19_RefreshLeavesOtherActions ==
  [][ RefreshNext =>
        \A v \in Actions :
          LatentRows(v) = << >> =>
            /\ PosteriorOf(post', v) = PosteriorOf(post, v)
            /\ PosteriorOf(post', v) = PosteriorOf(PriorPosterior(cfg), v) ]_vars

\* a refresh that moved one action off its prior while the other has no row
C19_Witness ==
  /\ ret.op = "refresh"
  /\ ret.raised = "none"
  /\ \E v, w \in Actions :
       /\ Len(LatentRows(v)) > 0
       /\ PosteriorOf(post, v) # PosteriorOf(PriorPosterior(cfg), v)
       /\ LatentRows(w) = << >>
       /\ PosteriorOf(post, w) = PosteriorOf(PriorPosterior(cfg), w)

\* C20: in an update() call that both retrains the network and refreshes the
\* posteriors, every latent row the refresh reads (the latent buffer as the
\* call found it: nothing writes it before _update_actions runs) was computed
\* under the approximator the retrain of that call leaves.
C20_RefreshReadsCurrentRows ==
  [][ ( /\ t' = t + 1
        /\ ret'.op = "update"
        /\ t' % cfg.update_freq_nn = 0
        /\ t' % cfg.update_freq_lr = 0 ) =>
        \A i \in 1 .. Len(latent_h.contexts) :
          \A j \in 1 .. Len(latent_h.contexts[i]) :
            latent_h.contexts[i][j].w = nn'.version ]_vars

\* C21: every update() adds one to t, appends the event to the raw buffer
\* and registers the user, trains if and only if the new t is a multiple of
\* update_freq_nn, refreshes the posteriors if and only if it is a multiple
\* of update_freq_lr, and appends the latent row only afterwards: a refresh
\* in the t-th update() reads exactly the t - 1 latent rows of the earlier
\* events.
C21_RecordOrder ==
  [][ ret'.op = "update" =>
        /\ t' = t + 1
        /\ Len(data_h'.contexts) = Len(data_h.contexts) + 1
        /\ \A u \in UserIds :
             data_h'.user_ids[Len(data_h'.user_ids)] = u => u \in DOMAIN user_dict'
        /\ (nn'.version # nn.version) => (t' % cfg.update_freq_nn = 0)
        /\ (t' % cfg.update_freq_nn = 0 /\ t' # 1) =>
             nn'.version = nn.version + cfg.num_epochs
        /\ (t' % cfg.update_freq_nn = 0 /\ t' = 1) => ~data_h'.scaled_none
        /\ (t' % cfg.update_freq_lr # 0) => post' = post
        /\ (t' % cfg.update_freq_lr = 0) =>
             /\ Len(latent_h.contexts) = t' - 1
             /\ post' = UpdateActions(cfg, latent_h, post).post
             /\ QSum([ i \in 1 .. num_actions |->
                         QMul(Q(2), QSub(post'.a[i], Q(a0))) ]) = Q(t' - 1)
        /\ Len(latent_h'.contexts) = t' ]_vars

\* a refresh in the second update() that counted one row
C21_Witness ==
  /\ ret.op = "update"
  /\ t = 2
  /\ t % cfg.update_freq_lr = 0
  /\ Len(latent_h.contexts) = 2
  /\ QSum([ i \in 1 .. num_actions |-> QMul(Q(2), QSub(post.a[i], Q(a0))) ]) = Q(1)

\* A caller that passes one tensor object per round, first to action() and
\* then to update(), as in
\*     a = agent.action(u, x); agent.update(u, x, a, r)
\* scale_contexts(contexts=...) writes its result into the tensor it is given
\* (result = contexts; result[:, col] -= ...; result[:, col] /= ...), and the
\* reshape calls of action() and update() give views of the caller's tensor.
\* The raw buffer holds integers: the round goes on to update() when the
\* tensor holds one.
IsIntReal(r) == r.sq[2] = 1 /\ \E k \in 0 .. 4 : k * k = r.sq[1]

IntOfReal(r) == r.sgn * (CHOOSE k \in 0 .. 4 : k * k = r.sq[1])

\* action(u, x, m) on a newly observed tensor x
CallerDecideNext ==
  /\ ret.op # "action"
  /\ t < MaxLoopT
  /\ \E c \in Contexts, m \in possible_methods :
       /\ Decide(7, c, m)
       /\ caller' = [ observed |-> c,
                      x |-> IF ~InWarmUp(cfg, t) /\ cfg.do_scaling
                            THEN ScaleValue(c, data_h.contexts)
                            ELSE RealOfInt(c) ]
  /\ UNCHANGED storeVars

\* update(u, x, a, r) with the same tensor x and the action returned
CallerRecordNext ==
  /\ ret.op = "action"
  /\ ret.raised = "none"
  /\ IsIntReal(caller.x)
  /\ Update(7, IntOfReal(caller.x), ret.val, 1)
  /\ caller' = [ caller EXCEPT !.x =
                   IF t + 1 > 1
                   THEN ScaleValue(IntOfReal(caller.x),
                                   Append(data_h.contexts, IntOfReal(caller.x)))
                   ELSE caller.x ]
  /\ UNCHANGED storeVars

CallerNext == CallerDecideNext \/ CallerRecordNext

SpecCaller == Init /\ [][CallerNext]_vars

\* C22: action() and update() leave the caller's context tensor as it was,
\* so that when one tensor is passed to action() and then to update() the raw
\* row update() appends is the context as observed before action(); and no
\* call alters a row already in the raw buffer.
C22_CallerContextUntouched ==
  [][ /\ ret'.op = "action" => caller'.x = RealOfInt(caller'.observed)
      /\ ret'.op = "update" =>
           /\ caller'.x = caller.x
           /\ data_h'.contexts[Len(data_h'.contexts)] = caller.observed
      /\ \A i \in 1 .. Len(data_h.contexts) :
           data_h'.contexts[i] = data_h.contexts[i] ]_vars

\* C23: when an update() has returned, the raw and the latent buffer both
\* have t rows, and row i of both is the same event: same action, same
\* reward row, and the latent user id is the index user_dict now gives to the
\* raw user id.
C23_BuffersDescribeSameEvents ==
  (ret.op = "update" /\ ret.raised = "none") =>
    /\ Len(data_h.contexts) = t /\ Len(latent_h.contexts) = t
    /\ Len(data_h.rewards) = t /\ Len(latent_h.rewards) = t
    /\ Len(data_h.actions) = t /\ Len(latent_h.actions) = t
    /\ Len(data_h.user_ids) = t /\ Len(latent_h.user_ids) = t
    /\ \A i \in 1 .. t :
         /\ latent_h.actions[i] = data_h.actions[i]
         /\ latent_h.rewards[i] = data_h.rewards[i]
         /\ data_h.user_ids[i] \in DOMAIN user_dict
         /\ latent_h.user_ids[i] = user_dict[data_h.user_ids[i]]

\* two recorded events of users 7 and 0, kept under the indices 1 and 0
C23_Witness ==
  /\ ret.op = "update"
  /\ t = 2
  /\ data_h.user_ids = << 7, 0 >>
  /\ latent_h.user_ids = << 1, 0 >>
  /\ data_h.actions = << 1, 0 >>
  /\ data_h.rewards[1] # data_h.rewards[2]

\* C24: whatever update() calls are made with finite contexts and rewards,
\* and whatever update_freq_nn, update_freq_lr and do_scaling are, no latent
\* row and no entry of any action's mu, cov, precision, a or b is NaN.
C24_NoNaNStored ==
  /\ \A i \in 1 .. Len(latent_h.contexts) :
       \A j \in 1 .. Len(latent_h.contexts[i]) :
         /\ ~IsNaNReal(latent_h.contexts[i][j].c)
         /\ ~IsNaNQ(Num(latent_h.contexts[i][j]))
  /\ \A v \in 1 .. num_actions :
       /\ \A j \in 1 .. Len(post.mu[v]) : ~IsNaNQ(post.mu[v][j])
       /\ ~HasNaN(post.cov[v])
       /\ ~HasNaN(post.precision[v])
       /\ ~IsNaNQ(post.a[v])
       /\ ~IsNaNQ(post.b[v])

\* the buffer after one add() call per event of the batch, in order
RECURSIVE AddAll(_, _)
AddAll(ds, batch) ==
  IF Len(batch) = 0 THEN ds
  ELSE AddAll(Add(ds, batch[1][1], batch[1][2], batch[1][3], batch[1][4]),
              Tail(batch))

\* C25: a bulk ingestion of k >= 1 events with sequences of equal length
\* that fits the capacity succeeds and leaves the buffer as k add() calls of
\* the same events in the same order do: k more rows in all four sequences,
\* num_actions reward columns, each reward in the column of its action.  It
\* is stated for a module in which the name pd is bound.
C25_IngestEqualsAppends ==
  [][ \A batch \in Batches :
        ( /\ BufIngest(batch, "none")
          /\ "pd" \in namespace
          /\ Len(batch) >= 1
          /\ buf.memory_size # -1 => DsLen(buf) + Len(batch) <= buf.memory_size ) =>
          /\ bufRet'.raised = "none"
          /\ buf' = AddAll(buf, batch)
          /\ \A i \in 1 .. Len(buf'.rewards) : Len(buf'.rewards[i]) = num_actions ]_vars

\* Agents with and without reset_lr, with and without decay of the wide
\* rate, under update() calls
TrainConfigs ==
  [ initial_pulls : {1},
    update_freq_nn : {1, 2},
    update_freq_lr : {1},
    num_epochs : {2},
    do_scaling : {FALSE},
    model_type : {"wide_deep"},
    wd_combine_method : {"concat_representation_llr"},
    reset_lr : BOOLEAN,
    lr_decay_rate_wide : {0, 1},
    lr_decay_rate_deep : {1} ]

TrainInit == IdleBuf /\ \E c \in TrainConfigs : AgentInit(c)

TrainRecordNext ==
  /\ t < MaxLoopT
  /\ \E c \in Contexts, a \in Actions : Update(7, c, a, 1)
  /\ UNCHANGED bufVars

SpecTrain == TrainInit /\ [][TrainRecordNext]_vars

\* C26: an update() whose t is a multiple of update_freq_nn runs exactly
\* num_epochs training steps with the step indices 0 .. num_epochs - 1, every
\* retrain starting again at 0; in the update() with t = 1 the minibatches
\* are sampled but no step runs and the parameters stay as they are; an
\* update() whose t is no multiple of update_freq_nn runs no step.
C26_TrainingSteps ==
  [][ ret'.op = "update" =>
        IF t' % cfg.update_freq_nn # 0
        THEN /\ nn'.steps = << >>
             /\ nn'.batches = 0
             /\ nn'.version = nn.version
             /\ nn'.lr = nn.lr
        ELSE IF t' = 1
        THEN /\ nn'.steps = << >>
             /\ nn'.batches = cfg.num_epochs
             /\ nn'.version = nn.version
             /\ nn'.lr = nn.lr
        ELSE /\ nn'.steps = [ k \in 1 .. cfg.num_epochs |-> k - 1 ]
             /\ nn'.batches = cfg.num_epochs
             /\ nn'.version = nn.version + cfg.num_epochs ]_vars

\* the second retrain that ran steps (t = 3 when every update() retrains):
\* its indices start at 0 again, and four steps have been applied in all
C26_Witness ==
  /\ ret.op = "update"
  /\ cfg.update_freq_nn = 1
  /\ t = 3
  /\ nn.steps = << 0, 1 >>
  /\ nn.version = 4

\* C27: with reset_lr on, every retrain run by update() begins with the
\* rate of every parameter group back at the rate it had at construction,
\* whatever the decay of the previous retrain left; with reset_lr off, the
\* retrain begins with the rates as they were left.
C27_RetrainRestoresRates ==
  [][ (ret'.op = "update" /\ t' % cfg.update_freq_nn = 0) =>
        IF cfg.reset_lr THEN nn'.lr_entry = InitialRates(cfg)
        ELSE nn'.lr_entry = nn.lr ]_vars

\* the user ids of the raw buffer in the order of their first update()
RECURSIVE FirstSeen(_)
FirstSeen(ids) ==
  IF Len(ids) = 0 THEN << >>
  ELSE LET n == Len(ids)
           before == FirstSeen(SubSeq(ids, 1, n - 1))
       IN IF \E k \in 1 .. n - 1 : ids[k] = ids[n] THEN before
          ELSE Append(before, ids[n])

\* C28: index 0 is the unknown user's alone: every user id recorded by
\* update() has an index >= 1, the k-th id first recorded has index k (so
\* distinct ids have distinct indices), current_user_size is the number of
\* entries of user_dict and every index lies in 0 .. current_user_size - 1.
C28_IndexZeroReserved ==
  LET seen == FirstSeen(data_h.user_ids)
  IN /\ \A k \in 1 .. Len(seen) :
          /\ seen[k] \in DOMAIN user_dict
          /\ user_dict[seen[k]] >= 1
          /\ user_dict[seen[k]] = k
     /\ current_user_size = Cardinality(DOMAIN user_dict)
     /\ \A u \in DOMAIN user_dict :
          user_dict[u] >= 0 /\ user_dict[u] < current_user_size

\* the rows of a buffer: everything but its cache of scaled contexts
Rows(ds) == << ds.user_ids, ds.contexts, ds.actions, ds.rewards >>

\* C29: action(), in the warm-up and after it and with every method, leaves
\* t, the rows of the raw buffer, the latent buffer, user_dict,
\* current_user_size and every action's posterior as they were; only
\* update() changes any of them, and t is the number of update() calls made.
C29_DecideChangesNothing ==
  [][ /\ ret'.op = "action" =>
           /\ t' = t
           /\ Rows(data_h') = Rows(data_h)
           /\ latent_h' = latent_h
           /\ user_dict' = user_dict
           /\ current_user_size' = current_user_size
           /\ post' = post
      /\ ( \/ t' # t
           \/ Rows(data_h') # Rows(data_h)
           \/ latent_h' # latent_h
           \/ user_dict' # user_dict
           \/ current_user_size' # current_user_size
           \/ post' # post ) => ret'.op = "update"
      /\ t' = Len(data_h'.actions) ]_vars

\* an action() answered after the warm-up, which rewrote the scaled cache of
\* the raw buffer and nothing else
C29_Witness ==
  /\ ret.op = "action"
  /\ ret.raised = "none"
  /\ ~(t < num_actions * cfg.initial_pulls)
  /\ cfg.do_scaling
  /\ Len(data_h.scaled_contexts) = t
  /\ Len(latent_h.actions) = t
  /\ post # PriorPosterior(cfg)

\* C30: in any sequence of update() and action() calls, every read of the
\* scaled_contexts cache of the raw buffer (the minibatches of a retrain, the
\* latent reconciliation when do_scaling is on) sees a cache with one row per
\* context, computed from the contents of the buffer after the last append.
C30_ScaledCacheFresh ==
  [][ (ret'.op = "update" /\ t' % cfg.update_freq_nn = 0) =>
        /\ Len(nn'.scaled_seen) = Len(data_h'.contexts)
        /\ \A i \in 1 .. Len(nn'.scaled_seen) :
             nn'.scaled_seen[i] = Standardised(data_h'.contexts[i], data_h'.contexts)
        /\ cfg.do_scaling =>
             /\ Len(latent_h'.contexts) = Len(data_h'.contexts)
             /\ \A i \in 1 .. Len(latent_h'.contexts) :
                  latent_h'.contexts[i][Len(latent_h'.contexts[i])].c =
                    Standardised(data_h'.contexts[i], data_h'.contexts) ]_vars

\* a retrain at t = 2 that read the cache of two different contexts, after an
\* action() call
C30_Witness ==
  /\ ret.op = "update"
  /\ t = 2
  /\ t % cfg.update_freq_nn = 0
  /\ cfg.do_scaling
  /\ nDecide > 0
  /\ Len(nn.scaled_seen) = 2
  /\ nn.scaled_seen[1] # nn.scaled_seen[2]
  /\ data_h.scaled_contexts = nn.scaled_seen

(***************************************************************************)
(* Minibatches of the stand-alone buffer                                   *)
(***************************************************************************)
BatchSizes == 0 .. 2                  \* batch_size
NRecents == 0 .. 3                    \* n_recent

\* the rows np.random.choice may draw from, as positions 1 .. n: range(n), or
\* range(max(0, n - memory_size), n) with a memory bound
Drawable(ds) ==
  LET n == Len(ds.contexts)
      lo == IF ds.memory_size = -1 \/ n - ds.memory_size < 0 THEN 0
            ELSE n - ds.memory_size
  IN lo + 1 .. n

\* ContextualDataset.get_batch_with_weights_recent, drawn being the outcome of
\* np.random.choice: the tuple it returns and the exception, if any.
\* n_recent is capped by batch_size and n, and ind[:n_recent] =
\* range(n - n_recent, n); weights[i, sampled_actions[i]] = 1.0.  With
\* batch_size = 0 a_ind is a one-dimensional empty tensor and a_ind[:, 0]
\* raises.
GetBatchWithWeightsRecent(ds, batch_size, n_recent, scaled, drawn) ==
  LET n == Len(ds.contexts)
      capped == IF n_recent > batch_size THEN batch_size ELSE n_recent
      k == IF n_recent > 0 THEN (IF capped > n THEN n ELSE capped) ELSE 0
      ind == [ i \in 1 .. Len(drawn) |-> IF i <= k THEN n - k + i ELSE drawn[i] ]
      Beyond(s) == \E i \in 1 .. Len(ind) : ind[i] > Len(s)
      Take(s) == [ i \in 1 .. Len(ind) |-> s[ind[i]] ]
      none == [ ind |-> << >>, user_ids |-> << >>, ctx |-> << >>,
                rewards |-> << >>, weights |-> << >> ]
  IN IF ds.contexts_none THEN [ val |-> none, raised |-> "AttributeError" ]
     ELSE IF Beyond(ds.actions) \/ batch_size = 0
     THEN [ val |-> none, raised |-> "IndexError" ]
     ELSE IF scaled /\ ds.scaled_none
     THEN [ val |-> none, raised |-> "TypeError" ]
     ELSE IF \/ scaled /\ Beyond(ds.scaled_contexts)
             \/ Beyond(ds.user_ids) \/ Beyond(ds.rewards)
     THEN [ val |-> none, raised |-> "IndexError" ]
     ELSE [ val |-> [ ind |-> ind,
                      user_ids |-> Take(ds.user_ids),
                      ctx |-> Take(GetContexts(ds, scaled)),
                      rewards |-> Take(ds.rewards),
                      weights |-> [ i \in 1 .. Len(ind) |->
                                      [ j \in 1 .. num_actions |->
                                          IF j = ds.actions[ind[i]] + 1
                                          THEN 1 ELSE 0 ] ] ],
            raised |-> "none" ]

\* buf.get_batch_with_weights_recent(batch_size, n_recent, scaled)
BufSample(batch_size, n_recent, scaled, drawn) ==
  /\ UNCHANGED <<namespace, blob, caller, threads, buf>>
  /\ LET res == GetBatchWithWeightsRecent(buf, batch_size, n_recent, scaled, drawn)
     IN bufRet' = [ op |-> "get_batch_with_weights_recent", raised |-> res.raised,
                    calls |-> bufRet.calls,
                    arg |-> [ batch_size |-> batch_size, n_recent |-> n_recent,
                              scaled |-> scaled ],
                    val |-> res.val ]

\* buf.scale_contexts(); self.contexts is None in an empty buffer
BufScale ==
  /\ UNCHANGED <<namespace, blob, caller, threads>>
  /\ buf' = IF buf.contexts_none THEN buf ELSE ScaleContexts(buf)
  /\ bufRet' = [ op |-> "scale_contexts",
                 raised |-> IF buf.contexts_none THEN "AttributeError" ELSE "none",
                 calls |-> bufRet.calls ]

\* A stand-alone buffer under add, scale_contexts and minibatch sampling
SampleSpecNext ==
  \/ AddEventNext
  \/ BufScale /\ UNCHANGED agentVars
  \/ /\ \E batch_size \in BatchSizes, n_recent \in NRecents, scaled \in BOOLEAN :
          \E drawn \in [ 1 .. batch_size -> Drawable(buf) ] :
             BufSample(batch_size, n_recent, scaled, drawn)
     /\ UNCHANGED agentVars

SpecSample == AddInit /\ [][SampleSpecNext]_vars

\* C31: get_batch_with_weights_recent(batch_size, n_recent) on a buffer of
\* n >= 1 rows returns exactly batch_size rows; the first
\* k = min(n_recent, batch_size, n) of them are rows n-k .. n-1 of the buffer
\* in arrival order and every other one is a row at a valid index; each weights
\* row is one-hot at the action of its row; the buffer is left as it was.
\* (A scaled read is covered when the cache is the one of the current rows.)
C31_RecencyBiasedBatch ==
  [][ ( /\ bufRet'.op = "get_batch_with_weights_recent"
        /\ Len(buf.contexts) >= 1
        /\ bufRet'.arg.scaled =>
             /\ ~buf.scaled_none
             /\ buf.scaled_contexts = ScaleContexts(buf).scaled_contexts )
      => LET a == bufRet'.arg
             r == bufRet'.val
             n == Len(buf.contexts)
             size == a.batch_size
             m == IF a.n_recent < size THEN a.n_recent ELSE size
             k == IF m < n THEN m ELSE n
         IN /\ bufRet'.raised = "none"
            /\ Len(r.user_ids) = size /\ Len(r.ctx) = size
            /\ Len(r.rewards) = size /\ Len(r.weights) = size
            /\ \A i \in 1 .. size :
                 /\ r.ind[i] \in 1 .. n
                 /\ i <= k => r.ind[i] = n - k + i
                 /\ r.user_ids[i] = buf.user_ids[r.ind[i]]
                 /\ r.rewards[i] = buf.rewards[r.ind[i]]
                 /\ r.ctx[i] = IF a.scaled THEN buf.scaled_contexts[r.ind[i]]
                               ELSE RealOfInt(buf.contexts[r.ind[i]])
                 /\ r.weights[i] = [ j \in 1 .. num_actions |->
                                       IF j = buf.actions[r.ind[i]] + 1 THEN 1 ELSE 0 ]
            /\ buf' = buf ]_vars

(***************************************************************************)
(* update() called from two threads, one statement group at a time         *)
(***************************************************************************)
\* update(user_id, context, action, reward) as each thread calls it
ThreadEvent(th) == IF th = 1 THEN << 7, 1, 0, 1 >> ELSE << 8, 2, 1, 0 >>

ThreadConfigs ==
  { [ FixedConfig EXCEPT !.update_freq_nn = n, !.update_freq_lr = l,
                         !.do_scaling = s ] :
      n \in {1, 2}, l \in {1, 2}, s \in BOOLEAN }

\* self.t % self.update_freq_nn == 0, self.t % self.update_freq_lr == 0
DueOneEarly(time, freq) == (time + 1) % freq = 0

Due(time, freq) == time % freq = 0

\* train() that stops after done minibatches: lookup_user_idxs raises on the
\* next one, which holds a user id that update_user_dict has not stored yet
TrainUntil(c, approx, time, data, done) ==
  LET n == IF time # 1 THEN done ELSE 0
  IN [ version |-> approx.version + n,
       lr |-> IF n = 0 THEN approx.lr ELSE StepRates(c, n - 1),
       batches |-> done + 1,
       steps |-> [ k \in 1 .. n |-> k - 1 ],
       lr_entry |-> approx.lr,
       scaled_seen |-> data.scaled_contexts ]

\* self.t += 1, the first statement of the call; with a mutex the call starts
\* only when no other call is in progress
Increment(th) ==
  /\ threads.pc[th] = "idle"
  /\ threads.mutex => \A o \in Threads : threads.pc[o] = "idle"
  /\ t < MaxT
  /\ t' = t + 1
  /\ threads' = [ threads EXCEPT !.pc[th] = "append", !.raised[th] = "none" ]
  /\ UNCHANGED <<namespace, blob, buf, bufRet, caller, cfg, data_h, latent_h,
                 user_dict, current_user_size, post, nn, ret, nDecide>>

\* self.data_h.add(user_id, context, action, reward)
RawAppend(th) ==
  /\ threads.pc[th] = "append"
  /\ LET e == ThreadEvent(th)
     IN data_h' = Add(data_h, e[1], e[2], e[3], e[4])
  /\ threads' = [ threads EXCEPT !.pc[th] = "register" ]
  /\ UNCHANGED <<namespace, blob, buf, bufRet, caller, cfg, t, latent_h,
                 user_dict, current_user_size, post, nn, ret, nDecide>>

\* self.update_user_dict(user_id)
Registration(th) ==
  /\ threads.pc[th] = "register"
  /\ LET reg == UpdateUserDict(user_dict, current_user_size, ThreadEvent(th)[1])
     IN /\ user_dict' = reg.dict
        /\ current_user_size' = reg.size
  /\ threads' = [ threads EXCEPT !.pc[th] = "retrain" ]
  /\ UNCHANGED <<namespace, blob, buf, bufRet, caller, cfg, t, data_h, latent_h,
                 post, nn, ret, nDecide>>

\* if self.t % self.update_freq_nn == 0: self.train(self.data_h, self.num_epochs).
\* Every minibatch holds the last update_freq_nn rows and rows drawn at random;
\* lookup_user_idxs raises KeyError on a row whose user id is not in user_dict.
Retrain(th) ==
  /\ threads.pc[th] = "retrain"
  /\ UNCHANGED <<namespace, blob, buf, bufRet, caller, cfg, t, latent_h,
                 user_dict, current_user_size, post, nDecide>>
  /\ IF ~Due(t, cfg.update_freq_nn)
     THEN /\ nn' = NoTrain(nn)
          /\ threads' = [ threads EXCEPT !.pc[th] = "refresh" ]
          /\ UNCHANGED <<data_h, ret>>
     ELSE LET d == ScaleContexts(data_h)
              n == Len(d.user_ids)
              unknown == { i \in 1 .. n : d.user_ids[i] \notin DOMAIN user_dict }
              forced == { i \in 1 .. n : i > n - cfg.update_freq_nn }
              stops == IF unknown = {} THEN { cfg.num_epochs }
                       ELSE IF unknown \cap forced # {} THEN { 0 }
                       ELSE 0 .. cfg.num_epochs
          IN /\ data_h' = d
             /\ \E done \in stops :
                  IF done = cfg.num_epochs
                  THEN /\ nn' = Train(cfg, nn, t, d)
                       /\ threads' = [ threads EXCEPT
                                         !.pc[th] = "refresh",
                                         !.trained = Append(@, t) ]
                       /\ UNCHANGED ret
                  ELSE /\ nn' = TrainUntil(cfg, nn, t, d, done)
                       /\ threads' = [ threads EXCEPT
                                         !.pc[th] = "idle",
                                         !.raised[th] = "KeyError",
                                         !.trained = Append(@, t) ]
                       /\ ret' = [ op |-> "update", arg |-> -1, val |-> -1,
                                   raised |-> "KeyError" ]

\* if self.t % self.update_freq_lr == 0: self._update_actions()
Refresh(th) ==
  /\ threads.pc[th] = "refresh"
  /\ UNCHANGED <<namespace, blob, buf, bufRet, caller, cfg, t, data_h, latent_h,
                 user_dict, current_user_size, nn, nDecide>>
  /\ IF ~Due(t, cfg.update_freq_lr)
     THEN /\ threads' = [ threads EXCEPT !.pc[th] = "latent" ]
          /\ UNCHANGED <<post, ret>>
     ELSE LET upd == UpdateActions(cfg, latent_h, post)
          IN /\ post' = upd.post
             /\ IF upd.raised = "none"
                THEN /\ threads' = [ threads EXCEPT
                                       !.pc[th] = "latent",
                                       !.refreshed = Append(@, t) ]
                     /\ UNCHANGED ret
                ELSE /\ threads' = [ threads EXCEPT
                                       !.pc[th] = "idle",
                                       !.raised[th] = upd.raised,
                                       !.refreshed = Append(@, t) ]
                     /\ ret' = [ op |-> "update", arg |-> -1, val |-> -1,
                                 raised |-> upd.raised ]

\* if self.t > 1: context = self.data_h.scale_contexts(contexts=context)[0];
\* then lookup_one_user_idx, get_representation and self.latent_h.add
LatentAppend(th) ==
  /\ threads.pc[th] = "latent"
  /\ LET e == ThreadEvent(th)
         cval == IF t > 1 THEN ScaleValue(e[2], data_h.contexts)
                 ELSE RealOfInt(e[2])
         user_idx == LookupOne(user_dict, e[1])
         z_context == GetRepresentation(cfg, nn.version, user_idx, cval)
     IN /\ data_h' = IF t > 1 THEN ScaleContexts(data_h) ELSE data_h
        /\ latent_h' = Add(latent_h, user_idx, z_context, e[3], e[4])
  /\ threads' = [ threads EXCEPT !.pc[th] = "reconcile" ]
  /\ UNCHANGED <<namespace, blob, buf, bufRet, caller, cfg, t, user_dict,
                 current_user_size, post, nn, ret, nDecide>>

\* if self.t % self.update_freq_nn == 0: self._replace_latent_h(), and the
\* return.  Wide_and_Deep_Model.get_representation concatenates one embedding
\* per latent user id with one hidden vector per raw context along dim 1,
\* which raises when the two buffers differ in length.
Reconcile(th) ==
  /\ threads.pc[th] = "reconcile"
  /\ UNCHANGED <<namespace, blob, buf, bufRet, caller, cfg, t, user_dict,
                 current_user_size, post, nn, nDecide>>
  /\ IF ~Due(t, cfg.update_freq_nn)
     THEN /\ threads' = [ threads EXCEPT !.pc[th] = "idle" ]
          /\ ret' = [ op |-> "update", arg |-> -1, val |-> -1, raised |-> "none" ]
          /\ UNCHANGED <<data_h, latent_h>>
     ELSE LET d == IF cfg.do_scaling THEN ScaleContexts(data_h) ELSE data_h
              fails == Len(latent_h.user_ids) # Len(d.contexts)
              raised == IF fails THEN "RuntimeError" ELSE "none"
          IN /\ data_h' = d
             /\ latent_h' = IF fails THEN latent_h
                            ELSE ReplaceLatent(cfg, nn, d, latent_h)
             /\ threads' = [ threads EXCEPT
                               !.pc[th] = "idle",
                               !.raised[th] = raised,
                               !.replaced = Append(@, t) ]
             /\ ret' = [ op |-> "update", arg |-> -1, val |-> -1,
                         raised |-> raised ]

ThreadsInit ==
  /\ namespace = {}
  /\ blob = NoFile
  /\ caller = NoTensor
  /\ buf = NewDataset(-1)
  /\ bufRet = [ op |-> "init", raised |-> "none", calls |-> 0 ]
  /\ threads \in { [ NoCalls EXCEPT !.mutex = m ] : m \in BOOLEAN }
  /\ \E c \in ThreadConfigs : AgentInit(c)

ThreadsNext ==
  \E th \in Threads :
    \/ Increment(th)
    \/ RawAppend(th)
    \/ Registration(th)
    \/ Retrain(th)
    \/ Refresh(th)
    \/ LatentAppend(th)
    \/ Reconcile(th)

\* Two threads calling update() on one agent, with and without a mutex
SpecThreads == ThreadsInit /\ [][ThreadsNext]_vars

\* no update() call is in progress
Quiescent == \A th \in Threads : threads.pc[th] = "idle"

\* some row i of the raw buffer and row i of the latent buffer describe
\* different events
RowsDiffer ==
  \E i \in 1 .. Len(data_h.actions) :
    /\ i <= Len(latent_h.actions)
    /\ \/ latent_h.actions[i] # data_h.actions[i]
       \/ latent_h.rewards[i] # data_h.rewards[i]
       \/ data_h.user_ids[i] \notin DOMAIN user_dict
       \/ latent_h.user_ids[i] # user_dict[data_h.user_ids[i]]

Times(log, v) == Cardinality({ k \in 1 .. Len(log) : log[k] = v })

\* a value of t that is a multiple of freq at which the step logged in log did
\* not run
Skipped(log, freq) == \E v \in 1 .. t : v % freq = 0 /\ Times(log, v) = 0

\* a value of t at which the step logged in log ran more than once
FiredTwice(log) == \E v \in 1 .. t : Times(log, v) > 1

CadenceBroken ==
  \/ Skipped(threads.trained, cfg.update_freq_nn) \/ FiredTwice(threads.trained)
  \/ Skipped(threads.refreshed, cfg.update_freq_lr) \/ FiredTwice(threads.refreshed)
  \/ Skipped(threads.replaced, cfg.update_freq_nn) \/ FiredTwice(threads.replaced)

\* C32: when every update() call runs to completion before the next starts
\* (the callers hold a mutex), no state is reachable in which row i of the
\* raw buffer and row i of the latent buffer describe different events, and
\* once the calls have returned every value of t that is a multiple of a
\* frequency had its retrain, refresh and reconciliation run exactly once.
\* Without the mutex, with the calls interleaved between the steps of
\* update(), such a state is reachable: C32_Witness.
C32_SerializedRecordSafe ==
  threads.mutex =>
    /\ ~RowsDiffer
    /\ Quiescent => ~CadenceBroken
    /\ \A th \in Threads : threads.raised[th] = "none"

\* two interleaved calls have returned without an exception; rows 1 of the
\* two buffers are different events, the retrain due at t = 1 never ran and
\* the one due at t = 2 ran twice
C32_Witness ==
  /\ ~threads.mutex
  /\ Quiescent
  /\ t = 2
  /\ \A th \in Threads : threads.raised[th] = "none"
  /\ RowsDiffer
  /\ data_h.actions[1] # latent_h.actions[1]
  /\ Skipped(threads.trained, cfg.update_freq_nn)
  /\ FiredTwice(threads.trained)

============================================================================
